---------------------------- MODULE Spec2Model ----------------------------
(***************************************************************************)
(* Verification model of the dexcrow escrow system (escrow-system/).       *)
(*                                                                         *)
(* Strings whose characters matter (addresses, transaction hashes) are     *)
(* sequences of one-character strings.  Times are clock ticks; one second  *)
(* is TicksPerSecond ticks, so that int(time.time()) and time.time() can   *)
(* be told apart.  Confidences are tenths (5 stands for 0.5).              *)
(***************************************************************************)
EXTENDS Integers, Sequences, FiniteSets, TLC

VARIABLES
    now,        \* the clock: time.time() in ticks
    escrows,    \* the registry's Escrow entities, in creation order
    disputes,   \* the registry's DisputeRecord entities, in creation order
    result,     \* the result returned by the last command
    dispute_data,  \* the dict handed to analyze_dispute
    analysis,   \* the last output of analyze_dispute
    chat,       \* an agent's on_chat handler: the message and its progress
    wire,       \* the envelope built last, and what its builder was given
    router,     \* the envelope being routed, and what was sent for it
    oracle,     \* the oracle agent: its configuration and its verification call
    procs,      \* the commands under way, each with its position
    locks,      \* per escrow, the command inside its critical section
    calc,       \* the last call of a function of shared/utils.py: inputs, output
    deployer,   \* the AgentDeployer: its records and the progress of its run
    network     \* two agents in an exchange: the messages in flight between them

\* The variables of the agents' message handling.
agentVars == <<chat, wire, router, oracle, procs, locks, calc, deployer, network>>

\* The variables of the registry and of the arbiter.
coreVars == <<now, escrows, disputes, result, dispute_data, analysis>>

\* What the steps of one part of the message handling leave alone.
exceptChat == <<coreVars, wire, router, oracle, procs, locks, calc, deployer, network>>
exceptWire == <<now, escrows, disputes, result, dispute_data, analysis, chat,
                router, oracle, procs, locks, calc, deployer, network>>
exceptRouter == <<chat, wire, oracle, procs, locks, calc, deployer, network>>

vars == <<now, escrows, disputes, result, dispute_data, analysis, agentVars>>

---------------------------------------------------------------------------
(* Bounds of the model. *)

MaxClock == 1
TicksPerSecond == 1
MaxEscrows == 2
MaxDisputes == 2
MaxEvidence == 2
MaxItems == 4
MaxContent == 2
MaxMsgId == 2

---------------------------------------------------------------------------
(* Characters and strings. *)

HexDigits ==
    {"0", "1", "2", "3", "4", "5", "6", "7", "8", "9",
     "a", "b", "c", "d", "e", "f", "A", "B", "C", "D", "E", "F"}

Whitespace == {" "}

Rep(c, n) == [i \in 1..n |-> c]

Drop(s, n) == IF n >= Len(s) THEN <<>> ELSE SubSeq(s, n + 1, Len(s))

StartsWith(s, p) == Len(s) >= Len(p) /\ SubSeq(s, 1, Len(p)) = p

RECURSIVE LStrip(_)
LStrip(s) ==
    IF s # <<>> /\ Head(s) \in Whitespace THEN LStrip(Tail(s)) ELSE s

RECURSIVE RStrip(_)
RStrip(s) ==
    IF s # <<>> /\ s[Len(s)] \in Whitespace
    THEN RStrip(SubSeq(s, 1, Len(s) - 1))
    ELSE s

\* The digit part of a Python integer literal: hexadecimal digits, with
\* single underscores allowed between two digits.
DigitsOk(s) ==
    /\ Len(s) > 0
    /\ s[1] \in HexDigits
    /\ \A i \in 1..Len(s) :
          \/ s[i] \in HexDigits
          \/ /\ s[i] = "_"
             /\ i < Len(s)
             /\ s[i + 1] \in HexDigits

\* int(s, 16) returns a value (TRUE) or raises ValueError (FALSE): the text is
\* stripped of whitespace, may carry a sign, then a 0x/0X prefix (itself
\* optionally followed by one underscore), then the digits.
PyIntBase16Ok(s) ==
    LET t == RStrip(LStrip(s))
        u == IF t # <<>> /\ Head(t) \in {"+", "-"} THEN Tail(t) ELSE t
        v == IF StartsWith(u, <<"0", "x">>) \/ StartsWith(u, <<"0", "X">>)
             THEN LET r == Drop(u, 2)
                  IN  IF r # <<>> /\ Head(r) = "_" THEN Tail(r) ELSE r
             ELSE u
    IN  DigitsOk(v)

AddressLength == 42
TxHashLength == 66

validate_address(address) ==
    IF address = <<>> THEN FALSE
    ELSE IF StartsWith(address, <<"0", "x">>) /\ Len(address) = AddressLength
         THEN PyIntBase16Ok(Drop(address, 2))
         ELSE FALSE

validate_transaction_hash(tx_hash) ==
    IF tx_hash = <<>> THEN FALSE
    ELSE IF StartsWith(tx_hash, <<"0", "x">>) /\ Len(tx_hash) = TxHashLength
         THEN PyIntBase16Ok(Drop(tx_hash, 2))
         ELSE FALSE


---------------------------------------------------------------------------
(* The clock and the id generators. *)

\* int(time.time())
Second(t) == t \div TicksPerSecond

\* hashlib.md5(text).hexdigest()[:n], kept as an uninterpreted function of
\* the hashed text: equal texts give equal digests.
Md5Hex(text, n) == [md5_of |-> text, digits |-> n]

\* The two successive readings of time.time() a generator takes.
ClockReadings == {<<now, t2>> : t2 \in {t \in {now, now + 1} : t <= MaxClock}}

generate_escrow_id(t1, t2) ==
    LET timestamp == Second(t1)
        random_part == Md5Hex(<<"", timestamp, t2>>, 8)
    IN  [prefix |-> "escrow_", timestamp |-> timestamp, random_part |-> random_part]

generate_dispute_id(t1, t2) ==
    LET timestamp == Second(t1)
        random_part == Md5Hex(<<"dispute_", timestamp, t2>>, 8)
    IN  [prefix |-> "dispute_", timestamp |-> timestamp, random_part |-> random_part]

\* An id a caller typed in by hand instead of generating it: the empty string.
EmptyId == [prefix |-> "", timestamp |-> 0, random_part |-> Md5Hex(<<>>, 0)]

NoneId == [prefix |-> "None", timestamp |-> 0, random_part |-> Md5Hex(<<>>, 0)]

RECURSIVE DecLen(_)
DecLen(n) == IF n < 10 THEN 1 ELSE 1 + DecLen(n \div 10)

\* len(id) of the formatted id f"{prefix}{timestamp}_{random_part}"
IdLen(id) ==
    IF id = EmptyId THEN 0
    ELSE Len(id.prefix) + DecLen(id.timestamp) + 1 + id.random_part.digits

---------------------------------------------------------------------------
(* The data model (shared/models.py). *)

EscrowState ==
    {"AWAITING_DEPOSIT", "AWAITING_FULFILLMENT", "DISPUTE_RAISED",
     "COMPLETED", "CANCELED"}

TradeType == {"crypto", "fiat_p2p", "cross_chain"}

\* The trade types the requests of the model ask for: one on-chain, one not.
RequestedTradeTypes == {"crypto", "fiat_p2p"}

\* None, in each of the types an Optional field has.
None == "None"
NoneStr == <<"None">>
NoneTime == 0 - 1

GoodAddress == <<"0", "x">> \o Rep("a", 40)
ShortAddress == <<"0", "x">> \o Rep("a", 39)
NonHexAddress == <<"0", "x">> \o Rep("g", 40)
EmptyString == <<>>

GoodTxHash == <<"0", "x">> \o Rep("b", 64)
ShortTxHash == <<"0", "x">> \o Rep("b", 63)

Asset(amount) == [present |-> TRUE, amount |-> amount]
NoneAsset == [present |-> FALSE, amount |-> EmptyString]

\* The fee percentages of EscrowTerms, in tenths: the dataclass defaults.
default_arbiter_fee_percentage == 10
default_platform_fee_percentage == 5

EscrowTerms(description, deadline) ==
    [present |-> TRUE, description |-> description, deadline |-> deadline,
     arbiter_fee_percentage |-> default_arbiter_fee_percentage,
     platform_fee_percentage |-> default_platform_fee_percentage]
NoneTerms == [present |-> FALSE, description |-> EmptyString, deadline |-> 0,
              arbiter_fee_percentage |-> 0, platform_fee_percentage |-> 0]

\* EscrowData as built from a CreateEscrowRequest: the dataclass defaults
\* fill the fields the request does not carry.
EscrowData(req, t) ==
    [escrow_id |-> req.escrow_id,
     status |-> "AWAITING_DEPOSIT",
     trade_type |-> req.trade_type,
     buyer_address |-> req.buyer_address,
     seller_address |-> req.seller_address,
     arbiter_address |-> req.arbiter_address,
     asset_a |-> req.asset_a,
     asset_b |-> req.asset_b,
     terms |-> req.terms,
     created_at |-> Second(t),
     updated_at |-> Second(t),
     deposit_tx_hash |-> NoneStr,
     settlement |-> None,
     dispute_id |-> NoneId]

DisputeRecord(dispute_id, e, evidence, t) ==
    [dispute_id |-> dispute_id,
     escrow |-> e,
     evidence |-> evidence,
     status |-> "open",
     created_at |-> Second(t),
     resolved_at |-> NoneTime,
     decision |-> None]

---------------------------------------------------------------------------
(* ValidationEngine (shared/utils.py). *)

\* Python truthiness of the values validate_escrow_data tests with "not":
\* None and the empty string are false, every dataclass instance is true.
FalsyStr(x) == x = NoneStr \/ x = EmptyString
FalsyId(x) == x = NoneId \/ x = EmptyId
FalsyObj(x) == ~x.present

\* validate_escrow_data with the deadline compared by < instead of <=.
validate_escrow_data_DeadlineNow(escrow_data, t) ==
    LET e1 == IF ~validate_address(escrow_data.buyer_address)
              THEN <<"Invalid buyer address">> ELSE <<>>
        e2 == IF ~validate_address(escrow_data.seller_address)
              THEN <<"Invalid seller address">> ELSE <<>>
        e3 == IF ~validate_address(escrow_data.arbiter_address)
              THEN <<"Invalid arbiter address">> ELSE <<>>
        e4 == IF FalsyId(escrow_data.escrow_id) \/ IdLen(escrow_data.escrow_id) < 10
              THEN <<"Invalid escrow ID">> ELSE <<>>
        e5 == IF FalsyObj(escrow_data.asset_a) \/ FalsyStr(escrow_data.asset_a.amount)
              THEN <<"Asset A is required">> ELSE <<>>
        e6 == IF FalsyObj(escrow_data.asset_b) \/ FalsyStr(escrow_data.asset_b.amount)
              THEN <<"Asset B is required">> ELSE <<>>
        e7 == IF FalsyObj(escrow_data.terms) \/ FalsyStr(escrow_data.terms.description)
              THEN <<"Escrow description is required">> ELSE <<>>
        e8 == IF ~FalsyObj(escrow_data.terms) /\ escrow_data.terms.deadline < Second(t)
              THEN <<"Deadline must be in the future">> ELSE <<>>
    IN  e1 \o e2 \o e3 \o e4 \o e5 \o e6 \o e7 \o e8

validate_escrow_data(escrow_data, t) ==
    LET e1 == IF ~validate_address(escrow_data.buyer_address)
              THEN <<"Invalid buyer address">> ELSE <<>>
        e2 == IF ~validate_address(escrow_data.seller_address)
              THEN <<"Invalid seller address">> ELSE <<>>
        e3 == IF ~validate_address(escrow_data.arbiter_address)
              THEN <<"Invalid arbiter address">> ELSE <<>>
        e4 == IF FalsyId(escrow_data.escrow_id) \/ IdLen(escrow_data.escrow_id) < 10
              THEN <<"Invalid escrow ID">> ELSE <<>>
        e5 == IF FalsyObj(escrow_data.asset_a) \/ FalsyStr(escrow_data.asset_a.amount)
              THEN <<"Asset A is required">> ELSE <<>>
        e6 == IF FalsyObj(escrow_data.asset_b) \/ FalsyStr(escrow_data.asset_b.amount)
              THEN <<"Asset B is required">> ELSE <<>>
        e7 == IF FalsyObj(escrow_data.terms) \/ FalsyStr(escrow_data.terms.description)
              THEN <<"Escrow description is required">> ELSE <<>>
        e8 == IF ~FalsyObj(escrow_data.terms) /\ escrow_data.terms.deadline <= Second(t)
              THEN <<"Deadline must be in the future">> ELSE <<>>
    IN  e1 \o e2 \o e3 \o e4 \o e5 \o e6 \o e7 \o e8


---------------------------------------------------------------------------
(* EscrowRegistry: the guarded transitions of one Escrow entity.  Each     *)
(* operator returns the result kind, the reasons and the entity after the  *)
(* command (the entity itself when the command is rejected).               *)

Commands ==
    {"deposit", "confirmFulfillment", "raiseDispute", "resolveDispute", "cancel"}

Decisions == {"release", "refund"}

EvidenceKinds == {"transaction_proof", "communication_log"}

Accepted(esc) == [kind |-> "ok", errors |-> <<>>, escrow |-> esc]

Rejected(kind, reason, esc) == [kind |-> kind, errors |-> reason, escrow |-> esc]

OnChain(trade_type) == trade_type \in {"crypto", "cross_chain"}

\* The commands that are legal in a status: the transition graph.
Legal(status, command) ==
    \/ command = "deposit" /\ status = "AWAITING_DEPOSIT"
    \/ command = "confirmFulfillment" /\ status = "AWAITING_FULFILLMENT"
    \/ command = "raiseDispute"
          /\ status \in {"AWAITING_DEPOSIT", "AWAITING_FULFILLMENT"}
    \/ command = "resolveDispute" /\ status = "DISPUTE_RAISED"
    \/ command = "cancel" /\ status = "AWAITING_DEPOSIT"

InvalidState(esc, command) ==
    Rejected("InvalidStateError", <<"Command not legal in current status">>, esc)

\* A deposit that keeps the proof it refuses as malformed.
deposit_KeepsRefusedProof(esc, proof, t) ==
    IF ~Legal(esc.status, "deposit") THEN InvalidState(esc, "deposit")
    ELSE IF OnChain(esc.trade_type) /\ ~validate_transaction_hash(proof)
    THEN Rejected("ValidationError", <<"Invalid transaction hash">>,
                  [esc EXCEPT !.deposit_tx_hash = proof])
    ELSE Accepted([esc EXCEPT !.status = "AWAITING_FULFILLMENT",
                              !.deposit_tx_hash = proof,
                              !.updated_at = Second(t)])

deposit(esc, proof, t) ==
    IF ~Legal(esc.status, "deposit") THEN InvalidState(esc, "deposit")
    ELSE IF OnChain(esc.trade_type) /\ ~validate_transaction_hash(proof)
    THEN Rejected("ValidationError", <<"Invalid transaction hash">>, esc)
    ELSE Accepted([esc EXCEPT !.status = "AWAITING_FULFILLMENT",
                              !.deposit_tx_hash = proof,
                              !.updated_at = Second(t)])

\* confirmFulfillment that answers an out-of-order call with a silent no-op.
confirmFulfillment_SilentNoOp(esc, t) ==
    IF ~Legal(esc.status, "confirmFulfillment")
    THEN Accepted(esc)
    ELSE Accepted([esc EXCEPT !.status = "COMPLETED",
                              !.settlement = "release",
                              !.updated_at = Second(t)])

\* confirmFulfillment that also completes an escrow still awaiting its deposit.
confirmFulfillment_WithoutDeposit(esc, t) ==
    IF esc.status \notin {"AWAITING_DEPOSIT", "AWAITING_FULFILLMENT"}
    THEN InvalidState(esc, "confirmFulfillment")
    ELSE Accepted([esc EXCEPT !.status = "COMPLETED",
                              !.settlement = "release",
                              !.updated_at = Second(t)])

confirmFulfillment(esc, t) ==
    IF ~Legal(esc.status, "confirmFulfillment")
    THEN InvalidState(esc, "confirmFulfillment")
    ELSE Accepted([esc EXCEPT !.status = "COMPLETED",
                              !.settlement = "release",
                              !.updated_at = Second(t)])

cancel(esc, t) ==
    IF ~Legal(esc.status, "cancel") THEN InvalidState(esc, "cancel")
    ELSE Accepted([esc EXCEPT !.status = "CANCELED",
                              !.updated_at = Second(t)])

\* raiseDispute that forgets to refuse an escrow that is already disputed.
raiseDispute_AgainWhenDisputed(esc, dispute_id, t) ==
    IF ~Legal(esc.status, "raiseDispute") /\ esc.status # "DISPUTE_RAISED"
    THEN InvalidState(esc, "raiseDispute")
    ELSE Accepted([esc EXCEPT !.status = "DISPUTE_RAISED",
                              !.dispute_id = dispute_id,
                              !.updated_at = Second(t)])

raiseDispute(esc, dispute_id, t) ==
    IF ~Legal(esc.status, "raiseDispute") THEN InvalidState(esc, "raiseDispute")
    ELSE Accepted([esc EXCEPT !.status = "DISPUTE_RAISED",
                              !.dispute_id = dispute_id,
                              !.updated_at = Second(t)])

\* resolveDispute with the two decisions mapped the wrong way round.
resolveDispute_Swapped(esc, decision, t) ==
    IF ~Legal(esc.status, "resolveDispute")
    THEN InvalidState(esc, "resolveDispute")
    ELSE Accepted([esc EXCEPT
            !.status = IF decision = "release" THEN "CANCELED" ELSE "COMPLETED",
            !.settlement = decision,
            !.updated_at = Second(t)])

resolveDispute(esc, decision, t) ==
    IF ~Legal(esc.status, "resolveDispute")
    THEN InvalidState(esc, "resolveDispute")
    ELSE Accepted([esc EXCEPT
            !.status = IF decision = "release" THEN "COMPLETED" ELSE "CANCELED",
            !.settlement = decision,
            !.updated_at = Second(t)])

\* The DisputeRecord after the arbiter's decision.
resolved(d, decision, t) ==
    [d EXCEPT !.status = "resolved",
              !.decision = decision,
              !.resolved_at = Second(t)]

\* submitEvidence that does not look at the record's status.
submitEvidence_AfterResolved(d, item) ==
    [kind |-> "ok",
     dispute |-> [d EXCEPT !.evidence = Append(d.evidence, item)]]

\* The DisputeRecord after one more piece of evidence is submitted.
submitEvidence(d, item) ==
    IF d.status = "resolved"
    THEN [kind |-> "InvalidStateError", dispute |-> d]
    ELSE [kind |-> "ok",
          dispute |-> [d EXCEPT !.evidence = Append(d.evidence, item)]]

\* The open disputes of entity e among the records ds.
OpenIn(ds, e) ==
    {i \in DOMAIN ds : ds[i].escrow = e /\ ds[i].status # "resolved"}

OpenDisputes(e) == OpenIn(disputes, e)


\* create(request): the entity is built, validated and, if valid, persisted.
create(req, t) ==
    LET escrow_data == EscrowData(req, t)
        errors == validate_escrow_data(escrow_data, t)
    IN  IF errors # <<>>
        THEN Rejected("ValidationError", errors, escrow_data)
        ELSE Accepted(escrow_data)

---------------------------------------------------------------------------
(* DisputeArbiter (agents/arbiter_agent.py). *)

RequiredEvidence ==
    <<"Transaction proof", "Communication logs", "Delivery confirmation">>

\* dict.get("evidence", []) of the dict handed in
GetEvidence(data) == IF data.has_evidence THEN data.evidence ELSE <<>>

\* analyze_dispute with the upper threshold tested by > instead of >=.
analyze_dispute_OffByOne(data) ==
    LET evidence_count == Len(GetEvidence(data))
        initial == [evidence |-> GetEvidence(data),
                    recommendation |-> "REQUIRES_MORE_EVIDENCE",
                    confidence |-> 5,
                    reasoning |-> "Insufficient evidence to make a decision",
                    required_evidence |-> RequiredEvidence]
    IN  IF evidence_count > 3
        THEN [initial EXCEPT
                !.recommendation = "RELEASE_FUNDS",
                !.confidence = 8,
                !.reasoning = "Sufficient evidence supports seller's claim"]
        ELSE IF evidence_count >= 1
        THEN [initial EXCEPT
                !.recommendation = "REFUND_FUNDS",
                !.confidence = 6,
                !.reasoning = "Evidence supports buyer's claim"]
        ELSE initial

analyze_dispute(data) ==
    LET evidence_count == Len(GetEvidence(data))
        initial == [evidence |-> GetEvidence(data),
                    recommendation |-> "REQUIRES_MORE_EVIDENCE",
                    confidence |-> 5,
                    reasoning |-> "Insufficient evidence to make a decision",
                    required_evidence |-> RequiredEvidence]
    IN  IF evidence_count >= 3
        THEN [initial EXCEPT
                !.recommendation = "RELEASE_FUNDS",
                !.confidence = 8,
                !.reasoning = "Sufficient evidence supports seller's claim"]
        ELSE IF evidence_count >= 1
        THEN [initial EXCEPT
                !.recommendation = "REFUND_FUNDS",
                !.confidence = 6,
                !.reasoning = "Evidence supports buyer's claim"]
        ELSE initial

NoAnalysis ==
    [evidence |-> <<>>, recommendation |-> None, confidence |-> 0,
     reasoning |-> None, required_evidence |-> <<>>]

ArbiterEvidenceKinds ==
    {"transaction_proof", "communication_log", "delivery_proof"}

---------------------------------------------------------------------------
(* Requests. *)

Defects ==
    {"buyer", "seller", "arbiter", "id", "asset_a", "asset_b",
     "description", "terms"}

\* The requests of the model break at most one field (and, independently,
\* the deadline).
DefectSets == {{}} \cup {{d} : d \in Defects}

Description == <<"t", "r", "a", "d", "e">>
Amount == <<"1", "0", "0">>

\* A CreateEscrowRequest that is well formed except for the fields in D.
CreateEscrowRequest(D, escrow_id, trade_type, deadline) ==
    [escrow_id |-> IF "id" \in D THEN EmptyId ELSE escrow_id,
     trade_type |-> trade_type,
     buyer_address |-> IF "buyer" \in D THEN EmptyString ELSE GoodAddress,
     seller_address |-> IF "seller" \in D THEN NonHexAddress ELSE GoodAddress,
     arbiter_address |-> IF "arbiter" \in D THEN ShortAddress ELSE GoodAddress,
     asset_a |-> IF "asset_a" \in D THEN NoneAsset ELSE Asset(Amount),
     asset_b |-> IF "asset_b" \in D THEN Asset(EmptyString) ELSE Asset(Amount),
     terms |-> IF "terms" \in D THEN NoneTerms
               ELSE EscrowTerms(IF "description" \in D THEN EmptyString
                                ELSE Description, deadline)]

Proofs == {GoodTxHash, ShortTxHash}

NoneRequest == [present |-> FALSE]

\* What the caller of a command gets back, with the request that was made.
Result(op, target, kind, errors) ==
    [op |-> op, target |-> target, kind |-> kind, errors |-> errors,
     request |-> NoneRequest]

NoResult == Result(None, 0, None, <<>>)

---------------------------------------------------------------------------
(* The agents' chat protocol (agents/*.py). *)

Roles == {"buyer", "seller", "arbiter", "oracle"}

Senders == {"agent1q_alice", "agent1q_bob"}

\* The phrases a word of a request contains (Python's `in` on two strings).
Within(word) ==
    CASE word = "raise dispute" -> {"raise dispute", "dispute"}
      [] word = "fulfillment" -> {"fulfillment", "fulfill"}
      [] word = "delivery" -> {"delivery", "deliver"}
      [] OTHER -> {word}

\* word.lower(), for the words of the requests that are not lower case.
Lower(word) ==
    CASE word = "HELP" -> "help"
      [] word = "Status" -> "status"
      [] OTHER -> word

\* phrase in request.lower(); a request is the set of its words
Contains(request, phrase) ==
    \E word \in request : phrase \in Within(Lower(word))

\* The request routers: the handler each picks, named as in the source.
handle_buyer_request(request) ==
    IF Contains(request, "create escrow") \/ Contains(request, "new escrow")
    THEN "handle_create_escrow"
    ELSE IF Contains(request, "deposit") THEN "handle_deposit_assets"
    ELSE IF Contains(request, "confirm") /\ Contains(request, "fulfillment")
    THEN "handle_confirm_fulfillment"
    ELSE IF Contains(request, "dispute") \/ Contains(request, "raise dispute")
    THEN "handle_raise_dispute"
    ELSE IF Contains(request, "refund") THEN "handle_refund_request"
    ELSE IF Contains(request, "help") THEN "handle_help"
    ELSE "not_sure"

handle_seller_request(request) ==
    IF Contains(request, "fulfill") \/ Contains(request, "deliver")
    THEN "handle_fulfill_obligation"
    ELSE IF Contains(request, "confirm") /\ Contains(request, "delivery")
    THEN "handle_confirm_delivery"
    ELSE IF Contains(request, "dispute") \/ Contains(request, "raise dispute")
    THEN "handle_raise_dispute"
    ELSE IF Contains(request, "status") \/ Contains(request, "check")
    THEN "handle_check_status"
    ELSE IF Contains(request, "evidence") \/ Contains(request, "proof")
    THEN "handle_provide_evidence"
    ELSE IF Contains(request, "help") THEN "handle_help"
    ELSE "not_sure"

handle_arbiter_request(request) ==
    IF Contains(request, "analyze") \/ Contains(request, "review")
    THEN "handle_analyze_dispute"
    ELSE IF Contains(request, "resolve") \/ Contains(request, "decision")
    THEN "handle_resolve_dispute"
    ELSE IF Contains(request, "evidence") THEN "handle_request_evidence"
    ELSE IF Contains(request, "help") THEN "handle_help"
    ELSE "not_sure"

\* The oracle's router with the status branch tried before the verify branch.
handle_oracle_request_StatusFirst(request) ==
    IF Contains(request, "status") THEN "handle_check_status"
    ELSE IF Contains(request, "verify") \/ Contains(request, "check")
    THEN "handle_verify_transaction"
    ELSE IF Contains(request, "help") THEN "handle_help"
    ELSE "not_sure"

handle_oracle_request(request) ==
    IF Contains(request, "verify") \/ Contains(request, "check")
    THEN "handle_verify_transaction"
    ELSE IF Contains(request, "status") THEN "handle_check_status"
    ELSE IF Contains(request, "help") THEN "handle_help"
    ELSE "not_sure"

handle_request(role, request) ==
    CASE role = "buyer" -> handle_buyer_request(request)
      [] role = "seller" -> handle_seller_request(request)
      [] role = "arbiter" -> handle_arbiter_request(request)
      [] role = "oracle" -> handle_oracle_request(request)

\* The messages an agent sends.
ChatAcknowledgement(to, acknowledged_msg_id) ==
    [to |-> to, kind |-> "acknowledgement",
     acknowledged_msg_id |-> acknowledged_msg_id, body |-> None]

_metadata(to, metadata) ==
    [to |-> to, kind |-> "metadata", acknowledged_msg_id |-> 0,
     body |-> metadata]

_text(to, msg) ==
    [to |-> to, kind |-> "text", acknowledged_msg_id |-> 0, body |-> msg]

\* The steps of a handler: a send (an await) or the inspection of one item
\* of msg.content.
Send(message) == [do |-> "send", item |-> 0, message |-> message]
Inspect(i) == [do |-> "inspect", item |-> i, message |-> _text(None, None)]

\* One pass of the loop over msg.content.
OnContent(role, sender, content, i) ==
    <<Inspect(i)>> \o
    (CASE content.kind = "start_session" ->
              <<Send(_metadata(sender, "capabilities")),
                Send(_text(sender, "ready"))>>
       [] content.kind = "text" ->
              <<Send(_text(sender, handle_request(role, content.text)))>>
       [] content.kind = "end_session" ->
              <<Send(_text(sender, "thank_you"))>>
       [] OTHER -> <<>>)

RECURSIVE ForContent(_, _, _, _)
ForContent(role, sender, content, i) ==
    IF i > Len(content) THEN <<>>
    ELSE OnContent(role, sender, content[i], i)
         \o ForContent(role, sender, content, i + 1)

\* on_chat with the acknowledgement sent after the loop over the content.
on_chat_AckLast(role, sender, msg) ==
    ForContent(role, sender, msg.content, 1)
    \o <<Send(ChatAcknowledgement(sender, msg.msg_id))>>

\* on_chat of the four agents, as the steps it takes in program order.
on_chat(role, sender, msg) ==
    <<Send(ChatAcknowledgement(sender, msg.msg_id))>>
    \o ForContent(role, sender, msg.content, 1)

\* No message is being handled.
NoChat == [role |-> None, sender |-> None, msg_id |-> 0, content |-> <<>>,
           ip |-> 0, item |-> 0, sent |-> <<>>]

---------------------------------------------------------------------------
(* The message protocol (protocols/escrow_protocol.py) and the message      *)
(* builders of shared/utils.py.  An envelope is a dict: a function from the *)
(* names of its fields, so that `field in message` is field \in DOMAIN.    *)

EscrowMessageTypes ==
    {"create_escrow", "escrow_created", "deposit_request", "deposit_confirmed",
     "fulfillment_request", "fulfillment_confirmed", "release_request",
     "refund_request", "dispute_raised", "dispute_resolved", "status_update",
     "oracle_verification", "oracle_response", "heartbeat", "error", "success"}

\* A list of supported types that also names the parser's default.
SUPPORTED_MESSAGE_TYPES_WithUnknown == EscrowMessageTypes \cup {"unknown"}

SUPPORTED_MESSAGE_TYPES == EscrowMessageTypes

\* datetime.now(timezone.utc).isoformat() and int(time.time())
IsoFormat(t) == [clock |-> t, format |-> "iso"]
EpochSeconds(t) == [clock |-> Second(t), format |-> "epoch"]

\* str(uuid4()): the n-th identifier drawn
Uuid(n) == [uuid |-> n]

\* {} and None where a dict is expected
EmptyDict == [none |-> FALSE]
NoneDict == [none |-> TRUE]

Envelope(type, t, n, data) ==
    [type |-> type, timestamp |-> IsoFormat(t), msg_id |-> Uuid(n),
     data |-> data]

create_escrow_message(escrow_data, t, n) ==
    Envelope("create_escrow", t, n, escrow_data)

create_deposit_message(escrow_id, asset_data, transaction_hash, t, n) ==
    Envelope("deposit_request", t, n,
             [escrow_id |-> escrow_id, asset_data |-> asset_data,
              transaction_hash |-> transaction_hash])

create_fulfillment_message(escrow_id, fulfillment_data, t, n) ==
    Envelope("fulfillment_request", t, n,
             [escrow_id |-> escrow_id, fulfillment_data |-> fulfillment_data])

create_dispute_message(escrow_id, dispute_payload, t, n) ==
    Envelope("dispute_raised", t, n,
             [escrow_id |-> escrow_id, dispute_data |-> dispute_payload])

create_oracle_verification_message(escrow_id, transaction_data, t, n) ==
    Envelope("oracle_verification", t, n,
             [escrow_id |-> escrow_id, transaction_data |-> transaction_data])

create_status_update_message(escrow_id, old_status, new_status, reason, t, n) ==
    Envelope("status_update", t, n,
             [escrow_id |-> escrow_id, old_status |-> old_status,
              new_status |-> new_status, reason |-> reason])

create_error_message(error, details, t, n) ==
    Envelope("error", t, n, [error |-> error, details |-> details])

\* "data": data or {}
create_success_message(message, data, t, n) ==
    Envelope("success", t, n,
             [message |-> message,
              data |-> IF data = NoneDict THEN EmptyDict ELSE data])

create_heartbeat_message(agent_type, status, t, n) ==
    Envelope("heartbeat", t, n,
             [agent_type |-> agent_type, status |-> status,
              uptime |-> Second(t)])

create_acknowledgement_message(original_msg_id, t, n) ==
    Envelope("acknowledgement", t, n,
             [acknowledged_msg_id |-> original_msg_id])

create_response_message(original_msg_id, response_type, response_data, t, n) ==
    Envelope(response_type, t, n,
             [original_msg_id |-> original_msg_id,
              response_data |-> response_data])

\* The builders of shared/utils.py with the same names.
utils_create_error_message(error, details) ==
    IF details # None
    THEN [type |-> "error", error |-> error, details |-> details]
    ELSE [type |-> "error", error |-> error]

utils_create_success_message(message, data) ==
    IF data # NoneDict /\ data # EmptyDict
    THEN [type |-> "success", message |-> message, data |-> data]
    ELSE [type |-> "success", message |-> message]

utils_create_status_update(escrow_id, old_status, new_status, reason, t) ==
    [type |-> "status_update", escrow_id |-> escrow_id,
     old_status |-> old_status, new_status |-> new_status,
     reason |-> reason, timestamp |-> EpochSeconds(t)]

utils_create_heartbeat_message(agent_type, status, t) ==
    [type |-> "heartbeat", agent_type |-> agent_type, status |-> status,
     timestamp |-> EpochSeconds(t), uptime |-> Second(t)]

\* message.get("type", "unknown")
parse_message_type(message) ==
    IF "type" \in DOMAIN message THEN message.type ELSE "unknown"

\* parse_message_data handing back the whole message.
parse_message_data_Whole(message) == message

\* message.get("data", {})
parse_message_data(message) ==
    IF "data" \in DOMAIN message THEN message.data ELSE EmptyDict

required_fields == {"type", "timestamp", "msg_id", "data"}

validate_message(message) ==
    \A field \in required_fields : field \in DOMAIN message

\* Nothing has been built yet.
NoWire == [by |-> None, module |-> None, payload |-> NoneDict,
           type |-> None, key |-> None, built |-> [none |-> TRUE]]

\* The handlers registered with escrow_protocol.on_message, by type.
Handler(type) ==
    CASE type = "create_escrow" -> "handle_create_escrow"
      [] type = "deposit_request" -> "handle_deposit_request"
      [] type = "fulfillment_request" -> "handle_fulfillment_request"
      [] type = "dispute_raised" -> "handle_dispute_raised"
      [] type = "oracle_verification" -> "handle_oracle_verification"
      [] type = "status_update" -> "handle_status_update"
      [] type = "heartbeat" -> "handle_heartbeat"
      [] OTHER -> None

NoEnvelope == [none |-> TRUE]

\* No envelope is being routed.
NoRouter == [inbound |-> NoEnvelope, stage |-> "idle", handler |-> None,
             out |-> <<>>, running |-> TRUE]

---------------------------------------------------------------------------
(* The oracle (agents/oracle_agent.py).  A Python value that may be of any  *)
(* type is written as its repr: "True", "False", "'yes'"; a confidence is   *)
(* a float in tenths, a str, or absent.                                     *)

Float(tenths) == [kind |-> "float", tenths |-> tenths]
Absent == [kind |-> "absent", tenths |-> 0]
StrValue == [kind |-> "str", tenths |-> 0]

\* A dict with (or without) the keys "verified" and "confidence".
Dict(verified, confidence, error) ==
    [type |-> "dict", verified |-> verified, confidence |-> confidence,
     error |-> error]

\* A JSON value that is no object: a list, a number, null.
NonDict(type) ==
    [type |-> type, verified |-> None, confidence |-> Absent, error |-> None]

\* What json.loads can make of the text the backend's model wrote.
ParsedReplies ==
    {Dict(v, c, None) : v \in {"True", "False"},
                        c \in {Float(0), Float(2), Float(9), Float(10)}}
    \cup {Dict("True", Float(95), None), Dict("True", Float(0 - 5), None),
          Dict("True", StrValue, None), Dict("'yes'", Float(9), None),
          Dict("True", Absent, None), Dict(None, Float(9), None),
          Dict(None, Absent, None)}
    \cup {NonDict("list"), NonDict("NoneType")}

\* What the call to the backend can come to.
RequestFailures == {"ConnectionError", "Timeout", "HTTPError"}
BodyFailures == {"body is not JSON", "no choices", "content is not a str"}
BackendOutcomes ==
    {[outcome |-> f, parsed |-> NonDict("NoneType")]
       : f \in RequestFailures \cup BodyFailures \cup {"content is not JSON"}}
    \cup {[outcome |-> "content", parsed |-> v] : v \in ParsedReplies}

Returned(value) == [raised |-> FALSE, value |-> value]
Raised(exception) == [raised |-> TRUE, value |-> NonDict(exception)]

\* verify_transaction_with_ai catching the errors of the request only.
verify_transaction_with_ai_NarrowExcept(api_key, transaction_data, backend) ==
    IF api_key \in {None, ""}
    THEN Returned(Dict("False", Float(0), "AI service not configured"))
    ELSE IF transaction_data = NoneDict
    THEN Raised("AttributeError")
    ELSE IF backend.outcome \in RequestFailures
    THEN Returned(Dict("False", Float(0), backend.outcome))
    ELSE IF backend.outcome \in BodyFailures
    THEN Raised(backend.outcome)
    ELSE IF backend.outcome = "content is not JSON"
    THEN Returned(Dict("False", Float(0), "Failed to parse AI response"))
    ELSE Returned(backend.parsed)

\* verify_transaction_with_ai: the value returned (nothing is raised: the
\* whole body after the configuration test is inside try/except Exception).
verify_transaction_with_ai(api_key, transaction_data, backend) ==
    IF api_key \in {None, ""}
    THEN Returned(Dict("False", Float(0), "AI service not configured"))
    ELSE IF transaction_data = NoneDict
    THEN Returned(Dict("False", Float(0), "AttributeError"))
    ELSE IF backend.outcome \in RequestFailures \cup BodyFailures
    THEN Returned(Dict("False", Float(0), backend.outcome))
    ELSE IF backend.outcome = "content is not JSON"
    THEN Returned(Dict("False", Float(0), "Failed to parse AI response"))
    ELSE Returned(backend.parsed)

\* The retry constants of the protocol (EscrowProtocolConstants).
MAX_RETRIES == 3
RETRY_DELAY == 5

\* Whether a call gets as far as requests.post.
Posts(api_key, transaction_data) ==
    api_key \notin {None, ""} /\ transaction_data # NoneDict

NoBackend == [outcome |-> None, parsed |-> NonDict("NoneType")]

\* The oracle agent with no call under way.
NoOracle == [api_key |-> None, pc |-> "idle", transaction_data |-> NoneDict,
             backend |-> NoBackend, raised |-> FALSE,
             value |-> NonDict("NoneType"), attempts |-> 0]

---------------------------------------------------------------------------
(* Commands under way (spec 5): each is a sequence of steps.                *)

Procs == {"p1", "p2"}

\* No command.
NoProc == [op |-> None, e |-> 0, ip |-> 0, calling |-> FALSE,
           verdict |-> NonDict("NoneType"), out |-> Accepted(NoneDict),
           during |-> FALSE]

NoProcs == [p \in Procs |-> NoProc]

\* No function of shared/utils.py has been called.
NoCalc == [fn |-> None]

\* The agents an AgentDeployer is constructed with, in the order of its dict.
DeployerAgents == <<"buyer", "seller", "oracle", "arbiter">>

\* AgentDeployer.__init__: nothing is deployed; deploy_all_agents has not run.
NoDeployer ==
    [pc |-> "constructed", next |-> 1, deployed_agents |-> <<>>,
     deployment_results |-> <<>>, verified |-> None]

\* No exchange: nothing is in flight.
NoDelivery == [kind |-> None, msg_id |-> 0, sent |-> <<>>]

NoNetwork == [role |-> <<>>, inflight |-> <<>>, last |-> NoDelivery]

AgentsIdle ==
    /\ chat = NoChat
    /\ wire = NoWire
    /\ router = NoRouter
    /\ oracle = NoOracle
    /\ procs = NoProcs
    /\ locks = <<>>
    /\ calc = NoCalc
    /\ deployer = NoDeployer
    /\ network = NoNetwork

---------------------------------------------------------------------------
(* The actions: one per command or handler. *)

Tick ==
    /\ now < MaxClock
    /\ now' = now + 1
    /\ UNCHANGED <<escrows, disputes, result, dispute_data, analysis>>
    /\ UNCHANGED agentVars

CreateUpTo(n) ==
    /\ Len(escrows) < n
    /\ \E rd \in ClockReadings, D \in DefectSets, tt \in RequestedTradeTypes,
          late \in 0..1 :
          LET req == CreateEscrowRequest(
                         D, generate_escrow_id(rd[1], rd[2]), tt,
                         Second(rd[2]) + late)
              out == create(req, rd[2])
          IN  /\ now' = rd[2]
              /\ escrows' = IF out.kind = "ok"
                            THEN Append(escrows, out.escrow) ELSE escrows
              /\ result' = [Result("create",
                                   IF out.kind = "ok" THEN Len(escrows) + 1 ELSE 0,
                                   out.kind, out.errors)
                             EXCEPT !.request = req]
    /\ UNCHANGED <<disputes, dispute_data, analysis>>
    /\ UNCHANGED agentVars

\* A command on one entity that touches no DisputeRecord.
Apply(op, e, out) ==
    /\ escrows' = [escrows EXCEPT ![e] = out.escrow]
    /\ result' = Result(op, e, out.kind, out.errors)

Deposit ==
    /\ \E e \in DOMAIN escrows, proof \in Proofs :
          Apply("deposit", e, deposit(escrows[e], proof, now))
    /\ UNCHANGED <<now, disputes, dispute_data, analysis>>
    /\ UNCHANGED agentVars

ConfirmFulfillment ==
    /\ \E e \in DOMAIN escrows :
          Apply("confirmFulfillment", e, confirmFulfillment(escrows[e], now))
    /\ UNCHANGED <<now, disputes, dispute_data, analysis>>
    /\ UNCHANGED agentVars

Cancel ==
    /\ \E e \in DOMAIN escrows :
          Apply("cancel", e, cancel(escrows[e], now))
    /\ UNCHANGED <<now, disputes, dispute_data, analysis>>
    /\ UNCHANGED agentVars

RaiseDispute ==
    /\ Len(disputes) < MaxDisputes
    /\ \E e \in DOMAIN escrows, rd \in ClockReadings,
          evidence \in {<<>>} \cup {<<k>> : k \in EvidenceKinds} :
          LET dispute_id == generate_dispute_id(rd[1], rd[2])
              out == raiseDispute(escrows[e], dispute_id, rd[2])
          IN  /\ Apply("raiseDispute", e, out)
              /\ IF out.kind = "ok"
                 THEN /\ disputes' = Append(disputes,
                              DisputeRecord(dispute_id, e, evidence, rd[2]))
                      /\ now' = rd[2]
                 ELSE UNCHANGED <<disputes, now>>
    /\ UNCHANGED <<dispute_data, analysis>>
    /\ UNCHANGED agentVars

ResolveDispute ==
    /\ \E e \in DOMAIN escrows, decision \in Decisions :
          LET out == resolveDispute(escrows[e], decision, now)
          IN  /\ Apply("resolveDispute", e, out)
              /\ disputes' =
                    IF out.kind = "ok"
                    THEN [i \in DOMAIN disputes |->
                            IF i \in OpenDisputes(e)
                            THEN resolved(disputes[i], decision, now)
                            ELSE disputes[i]]
                    ELSE disputes
    /\ UNCHANGED <<now, dispute_data, analysis>>
    /\ UNCHANGED agentVars

SubmitEvidence ==
    /\ \E d \in DOMAIN disputes, item \in EvidenceKinds :
          LET out == submitEvidence(disputes[d], item)
          IN  /\ out.kind = "ok" => Len(disputes[d].evidence) < MaxEvidence
              /\ disputes' = [disputes EXCEPT ![d] = out.dispute]
              /\ result' = Result("submitEvidence", d, out.kind, <<>>)
    /\ UNCHANGED <<now, escrows, dispute_data, analysis>>
    /\ UNCHANGED agentVars

\* A status_update handler that writes the announced status into the entity.
handle_status_update_Applies(registry, e, old_status, new_status) ==
    [registry EXCEPT ![e].status = new_status]

\* A status_update handler that follows the message when its old status is
\* the entity's current one.
handle_status_update_Follows(registry, e, old_status, new_status) ==
    IF registry[e].status = old_status
    THEN [registry EXCEPT ![e].status = new_status]
    ELSE registry

\* The status_update handler: the message is logged, nothing else.
handle_status_update(registry, e, old_status, new_status) == registry

HandleStatusUpdate ==
    /\ \E e \in DOMAIN escrows, old_status \in EscrowState, new_status \in EscrowState :
          /\ escrows' = handle_status_update(escrows, e, old_status, new_status)
          /\ result' = Result("status_update", e, None, <<>>)
    /\ UNCHANGED <<now, disputes, dispute_data, analysis>>
    /\ UNCHANGED agentVars

NoDisputeData == [has_evidence |-> FALSE, evidence |-> <<>>]

Init ==
    /\ now = 0
    /\ escrows = <<>>
    /\ disputes = <<>>
    /\ result = NoResult
    /\ dispute_data = NoDisputeData
    /\ analysis = NoAnalysis
    /\ AgentsIdle

\* The lifecycle of one escrow: the registry holds a single entity.
Create == CreateUpTo(1)

Next ==
    \/ Tick
    \/ Create
    \/ Deposit
    \/ ConfirmFulfillment
    \/ Cancel
    \/ RaiseDispute
    \/ ResolveDispute
    \/ SubmitEvidence
    \/ HandleStatusUpdate

Spec == Init /\ [][Next]_vars

---------------------------------------------------------------------------
(* The arbiter on its own: the caller builds a dict and has it analysed. *)

AddEvidence ==
    /\ Len(dispute_data.evidence) < MaxItems
    /\ \E item \in ArbiterEvidenceKinds :
          dispute_data' = [has_evidence |-> TRUE,
                           evidence |-> Append(dispute_data.evidence, item)]
    /\ UNCHANGED <<now, escrows, disputes, result, analysis>>
    /\ UNCHANGED agentVars

AnalyzeDispute ==
    /\ analysis' = analyze_dispute(dispute_data)
    /\ UNCHANGED <<now, escrows, disputes, result, dispute_data>>
    /\ UNCHANGED agentVars

InitArbiter ==
    /\ now = 0
    /\ escrows = <<>>
    /\ disputes = <<>>
    /\ result = NoResult
    /\ dispute_data \in {NoDisputeData, [has_evidence |-> TRUE, evidence |-> <<>>]}
    /\ analysis = NoAnalysis
    /\ AgentsIdle

NextArbiter == AddEvidence \/ AnalyzeDispute

SpecArbiter == InitArbiter /\ [][NextArbiter]_vars

---------------------------------------------------------------------------
(* Creation on its own: several escrows are created, none is advanced. *)

CreateMany == CreateUpTo(MaxEscrows)

NextCreate == Tick \/ CreateMany

SpecCreate == Init /\ [][NextCreate]_vars

---------------------------------------------------------------------------
(* The arbiter and the registry: a recorded dispute is analysed. *)

Registry == [escrows |-> escrows, disputes |-> disputes]

\* An analysis handler that carries its recommendation out on dispute d.
handle_analyze_dispute_AutoApplies(registry, d, recommendation) ==
    LET e == registry.disputes[d].escrow
        decision == IF recommendation = "RELEASE_FUNDS" THEN "release"
                    ELSE "refund"
    IN  IF recommendation = "REQUIRES_MORE_EVIDENCE"
           \/ registry.disputes[d].status # "open"
        THEN registry
        ELSE [escrows |-> [registry.escrows EXCEPT
                             ![e] = resolveDispute(@, decision, now).escrow],
              disputes |-> [registry.disputes EXCEPT
                             ![d] = resolved(@, decision, now)]]

\* What serving an analysis request does to the registry: analyze_dispute
\* returns a new dict, handle_analyze_dispute sends a text; neither holds an
\* Escrow or a DisputeRecord.
handle_analyze_dispute(registry, d, recommendation) == registry

AnalyzeRecorded ==
    /\ \E d \in DOMAIN disputes :
          LET data == [has_evidence |-> TRUE, evidence |-> disputes[d].evidence]
              after == handle_analyze_dispute(
                           Registry, d, analyze_dispute(data).recommendation)
          IN  /\ dispute_data' = data
              /\ analysis' = analyze_dispute(data)
              /\ escrows' = after.escrows
              /\ disputes' = after.disputes
    /\ UNCHANGED <<now, result>>
    /\ UNCHANGED agentVars

NextAdvisory ==
    \/ Create
    \/ Deposit
    \/ RaiseDispute
    \/ SubmitEvidence
    \/ ResolveDispute
    \/ AnalyzeRecorded

SpecAdvisory == Init /\ [][NextAdvisory]_vars

---------------------------------------------------------------------------
(* An agent handles chat messages, one await at a time. *)

Requests == {{"raise dispute"}, {"status"}, {"help"}, {"hello"}}

ContentItems ==
    {[kind |-> k, text |-> {}] : k \in {"start_session", "end_session", "metadata"}}
    \cup {[kind |-> "text", text |-> r] : r \in Requests}

Contents == UNION {[1..n -> ContentItems] : n \in 0..MaxContent}

\* A ChatMessage arrives and on_chat is entered.
OnChat ==
    /\ chat.role = None
    /\ \E role \in Roles, sender \in Senders, msg_id \in 1..MaxMsgId,
          content \in Contents :
          chat' = [NoChat EXCEPT !.role = role, !.sender = sender,
                                 !.msg_id = msg_id, !.content = content]
    /\ UNCHANGED exceptChat

Program == on_chat(chat.role, chat.sender, chat)

\* The handler runs to its next await, or looks at the next content item.
OnChatStep ==
    /\ chat.role # None
    /\ chat.ip < Len(Program)
    /\ LET step == Program[chat.ip + 1]
       IN  chat' = [chat EXCEPT
                      !.ip = @ + 1,
                      !.item = IF step.do = "inspect" THEN step.item ELSE @,
                      !.sent = IF step.do = "send"
                               THEN Append(@, step.message) ELSE @]
    /\ UNCHANGED exceptChat

\* on_chat returns.
OnChatReturn ==
    /\ chat.role # None
    /\ chat.ip = Len(Program)
    /\ chat' = NoChat
    /\ UNCHANGED exceptChat

NextChat == OnChat \/ OnChatStep \/ OnChatReturn

SpecChat == Init /\ [][NextChat]_vars

---------------------------------------------------------------------------
(* Envelopes are built: every builder, on dicts and values of each shape. *)

Payloads == {EmptyDict, [amount |-> "100"], [transaction_hash |-> "0xb"]}

ResponseTypes == {"escrow_created", "deposit_confirmed", "oracle_response"}

\* What a builder was given and what it built.  payload is the dict
\* argument (NoneDict when the builder takes none), key the field of data
\* that holds it (None when data is the dict itself).
Built(by, module, type, payload, key, built) ==
    [by |-> by, module |-> module, payload |-> payload, type |-> type,
     key |-> key, built |-> built]

ProtocolBuilds(t, n) ==
    {Built("create_escrow_message", "protocol", "create_escrow", p, None,
           create_escrow_message(p, t, n)) : p \in Payloads}
    \cup {Built("create_deposit_message", "protocol", "deposit_request", p,
                "asset_data", create_deposit_message("escrow_1", p, "0xb", t, n))
          : p \in Payloads}
    \cup {Built("create_fulfillment_message", "protocol", "fulfillment_request",
                p, "fulfillment_data",
                create_fulfillment_message("escrow_1", p, t, n)) : p \in Payloads}
    \cup {Built("create_dispute_message", "protocol", "dispute_raised", p,
                "dispute_data", create_dispute_message("escrow_1", p, t, n))
          : p \in Payloads}
    \cup {Built("create_oracle_verification_message", "protocol",
                "oracle_verification", p, "transaction_data",
                create_oracle_verification_message("escrow_1", p, t, n))
          : p \in Payloads}
    \cup {Built("create_success_message", "protocol", "success", p, "data",
                create_success_message("done", p, t, n))
          : p \in Payloads \cup {NoneDict}}
    \cup {Built("create_response_message", "protocol", rt, p, "response_data",
                create_response_message(Uuid(n), rt, p, t, n))
          : rt \in ResponseTypes, p \in Payloads}
    \cup {Built("create_status_update_message", "protocol", "status_update",
                NoneDict, None,
                create_status_update_message("escrow_1", old, new, "deposit",
                                             t, n))
          : old \in {"AWAITING_DEPOSIT"}, new \in {"AWAITING_FULFILLMENT",
                                                    "CANCELED"}}
    \cup {Built("create_error_message", "protocol", "error", NoneDict, None,
                create_error_message("failed", d, t, n))
          : d \in {None, "details"}}
    \cup {Built("create_heartbeat_message", "protocol", "heartbeat", NoneDict,
                None, create_heartbeat_message(role, "active", t, n))
          : role \in Roles}
    \cup {Built("create_acknowledgement_message", "protocol",
                "acknowledgement", NoneDict, None,
                create_acknowledgement_message(Uuid(m), t, n))
          : m \in 1..MaxMsgId}

SharedBuilds(t) ==
    {Built("create_error_message", "utils", "error", NoneDict, None,
           utils_create_error_message("failed", d)) : d \in {None, "details"}}
    \cup {Built("create_success_message", "utils", "success", p, "data",
                utils_create_success_message("done", p))
          : p \in Payloads \cup {NoneDict}}
    \cup {Built("create_status_update", "utils", "status_update", NoneDict,
                None,
                utils_create_status_update("escrow_1", "AWAITING_DEPOSIT", new,
                                           "deposit", t))
          : new \in {"AWAITING_FULFILLMENT", "CANCELED"}}
    \cup {Built("create_heartbeat_message", "utils", "heartbeat", NoneDict,
                None, utils_create_heartbeat_message(role, "active", t))
          : role \in Roles}

\* A builder of protocols/escrow_protocol.py is called.
BuildEnvelope ==
    /\ \E n \in 1..MaxMsgId : \E w \in ProtocolBuilds(now, n) : wire' = w
    /\ UNCHANGED exceptWire

\* A builder of shared/utils.py is called.
BuildShared ==
    /\ \E w \in SharedBuilds(now) : wire' = w
    /\ UNCHANGED exceptWire

NextWire == Tick \/ BuildEnvelope \/ BuildShared

SpecWire == Init /\ [][NextWire]_vars

---------------------------------------------------------------------------
(* Routing of inbound envelopes to the registry (spec 4.4), over the code's *)
(* parse_message_type, validate_message, SUPPORTED_MESSAGE_TYPES and        *)
(* builders.  The registry holds one escrow, created from a valid request; *)
(* deposit_request and fulfillment_request are the routed commands.        *)

InboundTypes == EscrowMessageTypes \cup {"acknowledgement", "unknown", "bogus"}

\* The envelopes a party may send: of any type, or with no type at all.
Inbound(t) ==
    LET bodies == {[escrow_id |-> 1, transaction_hash |-> proof] : proof \in Proofs}
        typed == {Envelope(type, t, n, body) :
                    type \in InboundTypes, n \in 1..MaxMsgId, body \in bodies}
    IN  typed
        \cup {[timestamp |-> m.timestamp, msg_id |-> m.msg_id, data |-> m.data]
              : m \in {x \in typed : x.type = "bogus"}}

Receive ==
    /\ router.stage = "idle"
    /\ router.running
    /\ \E m \in Inbound(now) :
          router' = [NoRouter EXCEPT !.inbound = m, !.stage = "received"]
    /\ UNCHANGED <<coreVars, exceptRouter>>

Acknowledge ==
    /\ router.stage = "received"
    /\ router' = [router EXCEPT
                    !.stage = "acknowledged",
                    !.out = <<create_acknowledgement_message(
                                  router.inbound.msg_id, now, MaxMsgId)>>]
    /\ UNCHANGED <<coreVars, exceptRouter>>

\* The command a routed envelope stands for, applied to escrow e.
Routed(type, e, data) ==
    CASE type = "deposit_request" ->
             [op |-> "deposit",
              out |-> deposit(escrows[e], data.transaction_hash, now)]
      [] type = "fulfillment_request" ->
             [op |-> "confirmFulfillment",
              out |-> confirmFulfillment(escrows[e], now)]
      [] OTHER -> [op |-> None, out |-> Accepted(escrows[e])]

Dispatch ==
    /\ router.stage = "acknowledged"
    /\ LET m == router.inbound
           type == parse_message_type(m)
           data == parse_message_data(m)
           reject(error) ==
               /\ router' = [router EXCEPT
                               !.stage = "dispatched",
                               !.out = Append(@, create_error_message(
                                                     error, None, now, MaxMsgId))]
               /\ UNCHANGED <<escrows, result>>
       IN  IF type = "acknowledgement"
           THEN /\ router' = [router EXCEPT !.stage = "dispatched",
                                             !.handler = "on_ack"]
                /\ UNCHANGED <<escrows, result>>
           ELSE IF type \notin SUPPORTED_MESSAGE_TYPES
           THEN reject("unsupported message type")
           ELSE IF ~validate_message(m)
           THEN reject("malformed message")
           ELSE /\ router' = [router EXCEPT !.stage = "dispatched",
                                             !.handler = Handler(type)]
                /\ IF data.escrow_id \in DOMAIN escrows
                      /\ Routed(type, data.escrow_id, data).op # None
                   THEN LET cmd == Routed(type, data.escrow_id, data)
                        IN  Apply(cmd.op, data.escrow_id, cmd.out)
                   ELSE UNCHANGED <<escrows, result>>
    /\ UNCHANGED <<now, disputes, dispute_data, analysis, exceptRouter>>

\* The handling loop takes the next envelope.
Resume ==
    /\ router.stage = "dispatched"
    /\ router.running
    /\ router' = [router EXCEPT !.stage = "idle"]
    /\ UNCHANGED <<coreVars, exceptRouter>>

\* The registry after one valid creation at time 0.
InitRouter ==
    /\ now = 0
    /\ \E tt \in RequestedTradeTypes :
          escrows = <<create(CreateEscrowRequest(
                                 {}, generate_escrow_id(0, 0), tt, 1), 0).escrow>>
    /\ disputes = <<>>
    /\ result = NoResult
    /\ dispute_data = NoDisputeData
    /\ analysis = NoAnalysis
    /\ AgentsIdle

NextRouter == Tick \/ Receive \/ Acknowledge \/ Dispatch \/ Resume

SpecRouter == InitRouter /\ [][NextRouter]_vars

---------------------------------------------------------------------------
(* The oracle verifies the proof of a deposit; the registry applies the     *)
(* policy of spec 4.5 to what verify_transaction_with_ai returns.           *)

\* The operator-configured confidence threshold, in tenths.
ConfidenceThreshold == 7

\* A deposit that counts a verification of any confidence as sufficient.
depositVerified_IgnoresConfidence(esc, proof, verification, t) ==
    LET out == deposit(esc, proof, t)
    IN  IF out.kind # "ok" THEN out
        ELSE IF verification.verified # "True"
        THEN Rejected("inconclusive", <<"Oracle result is inconclusive">>, esc)
        ELSE out

\* deposit with the oracle's verdict on its proof: the deposit is confirmed
\* only by verified = True with a confidence of at least the threshold.
depositVerified(esc, proof, verification, t) ==
    LET out == deposit(esc, proof, t)
        sufficient == /\ verification.type = "dict"
                      /\ verification.verified = "True"
                      /\ verification.confidence.kind = "float"
                      /\ verification.confidence.tenths >= ConfidenceThreshold
    IN  IF out.kind # "ok" THEN out
        ELSE IF ~sufficient
        THEN Rejected("inconclusive", <<"Oracle result is inconclusive">>, esc)
        ELSE out

exceptOracle == <<chat, wire, router, procs, locks, calc, deployer, network>>

\* verify_transaction_with_ai is called for the deposit of escrow 1.
VerifyCall ==
    /\ oracle.pc = "idle"
    /\ Legal(escrows[1].status, "deposit")
    /\ \E transaction_data \in {[transaction_hash |-> "0xb"], NoneDict} :
          LET out == verify_transaction_with_ai(
                         oracle.api_key, transaction_data, NoBackend)
          IN  oracle' =
                IF Posts(oracle.api_key, transaction_data)
                THEN [oracle EXCEPT !.pc = "in_flight",
                                    !.transaction_data = transaction_data,
                                    !.backend = NoBackend,
                                    !.attempts = 1]
                ELSE [oracle EXCEPT
                        !.pc = IF out.raised THEN "raised" ELSE "returned",
                        !.transaction_data = transaction_data,
                        !.backend = NoBackend,
                        !.raised = out.raised, !.value = out.value,
                        !.attempts = 0]
    /\ UNCHANGED <<coreVars, exceptOracle>>

\* requests.post comes back (or fails) and the function runs to its end.
BackendReply ==
    /\ oracle.pc = "in_flight"
    /\ \E backend \in BackendOutcomes :
          LET out == verify_transaction_with_ai(
                         oracle.api_key, oracle.transaction_data, backend)
          IN  oracle' = [oracle EXCEPT
                           !.pc = IF out.raised THEN "raised" ELSE "returned",
                           !.backend = backend,
                           !.raised = out.raised, !.value = out.value]
    /\ UNCHANGED <<coreVars, exceptOracle>>

\* The registry takes the verdict and decides the deposit.
DepositVerified ==
    /\ oracle.pc = "returned"
    /\ Apply("deposit", 1,
             depositVerified(escrows[1], GoodTxHash, oracle.value, now))
    /\ oracle' = [oracle EXCEPT !.pc = "idle"]
    /\ UNCHANGED <<now, disputes, dispute_data, analysis, exceptOracle>>

\* One on-chain escrow awaits its deposit; the agent's API key is set, empty
\* or missing.
InitOracle ==
    /\ now = 0
    /\ escrows = <<create(CreateEscrowRequest(
                              {}, generate_escrow_id(0, 0), "crypto", 1), 0).escrow>>
    /\ disputes = <<>>
    /\ result = NoResult
    /\ dispute_data = NoDisputeData
    /\ analysis = NoAnalysis
    /\ chat = NoChat
    /\ wire = NoWire
    /\ router = NoRouter
    /\ procs = NoProcs
    /\ locks = <<>>
    /\ calc = NoCalc
    /\ deployer = NoDeployer
    /\ network = NoNetwork
    /\ \E api_key \in {None, "", "sk_key"} :
          oracle = [NoOracle EXCEPT !.api_key = api_key]

NextOracle == Tick \/ VerifyCall \/ BackendReply \/ DepositVerified

SpecOracle == InitOracle /\ [][NextOracle]_vars

---------------------------------------------------------------------------
(* Concurrent commands on the registry (spec 5): a per-escrow critical      *)
(* section spans validation and application; the oracle is called for a    *)
(* deposit by verify_transaction_with_ai.                                   *)

ConcurrentOps == {"deposit", "cancel", "status"}

\* A deposit that calls the oracle inside its critical section.
deposit_steps_VerifyInside == <<"acquire", "verify", "validate", "apply">>

\* The steps of a deposit: the oracle is called before the section is entered.
deposit_steps == <<"verify", "acquire", "validate", "apply">>

Steps(op) ==
    CASE op = "deposit" -> deposit_steps
      [] op = "status" -> <<"acquire", "read">>
      [] OTHER -> <<"acquire", "validate", "apply">>

\* The step command p is about to take.
At(p) == IF procs[p].op = None THEN None ELSE Steps(procs[p].op)[procs[p].ip]

\* A critical section that anyone may enter.
CanEnter_Always(holder) == TRUE

\* The critical section of an escrow is entered only when it is free.
CanEnter(holder) == holder = None

\* What command op decides on escrow esc.
Outcome(op, esc, verdict, t) ==
    CASE op = "deposit" -> depositVerified(esc, GoodTxHash, verdict, t)
      [] op = "cancel" -> cancel(esc, t)
      [] OTHER -> Accepted(esc)

\* The replies of the backend that this specification considers.
SomeOutcomes ==
    {[outcome |-> "Timeout", parsed |-> NonDict("NoneType")],
     [outcome |-> "content", parsed |-> Dict("True", Float(9), None)],
     [outcome |-> "content", parsed |-> Dict("True", Float(2), None)]}

exceptProcs == <<chat, wire, router, calc, deployer, network>>

Submit(p) ==
    /\ procs[p].op = None
    /\ \E op \in ConcurrentOps, e \in DOMAIN escrows :
          procs' = [procs EXCEPT ![p] =
                      [NoProc EXCEPT
                         !.op = op, !.e = e, !.ip = 1,
                         !.during = \E q \in Procs :
                                       procs[q].calling /\ procs[q].e = e]]
    /\ UNCHANGED <<coreVars, oracle, locks, exceptProcs>>

VerifyStart(p) ==
    /\ At(p) = "verify"
    /\ ~procs[p].calling
    /\ oracle.pc = "idle"
    /\ oracle' = [oracle EXCEPT
                    !.pc = "in_flight",
                    !.transaction_data = [transaction_hash |-> "0xb"],
                    !.backend = NoBackend,
                    !.attempts = 1]
    /\ procs' = [procs EXCEPT ![p].calling = TRUE]
    /\ UNCHANGED <<coreVars, locks, exceptProcs>>

VerifyReturn(p) ==
    /\ procs[p].calling
    /\ oracle.pc = "in_flight"
    /\ \E backend \in SomeOutcomes :
          LET out == verify_transaction_with_ai(
                         oracle.api_key, oracle.transaction_data, backend)
          IN  /\ oracle' = [oracle EXCEPT !.pc = "idle", !.backend = backend,
                                          !.raised = out.raised,
                                          !.value = out.value]
              /\ procs' = [procs EXCEPT ![p].calling = FALSE,
                                        ![p].verdict = out.value,
                                        ![p].ip = @ + 1]
    /\ UNCHANGED <<coreVars, locks, exceptProcs>>

Acquire(p) ==
    /\ At(p) = "acquire"
    /\ CanEnter(locks[procs[p].e])
    /\ locks' = [locks EXCEPT ![procs[p].e] = p]
    /\ procs' = [procs EXCEPT ![p].ip = @ + 1]
    /\ UNCHANGED <<coreVars, oracle, exceptProcs>>

Validate(p) ==
    /\ At(p) = "validate"
    /\ procs' = [procs EXCEPT
                   ![p].out = Outcome(procs[p].op, escrows[procs[p].e],
                                      procs[p].verdict, now),
                   ![p].ip = @ + 1]
    /\ UNCHANGED <<coreVars, oracle, locks, exceptProcs>>

\* The section is left by the command that holds it.
Release(p) ==
    locks' = [locks EXCEPT ![procs[p].e] = IF @ = p THEN None ELSE @]

ApplyDecision(p) ==
    /\ At(p) = "apply"
    /\ Apply(procs[p].op, procs[p].e, procs[p].out)
    /\ Release(p)
    /\ procs' = [procs EXCEPT ![p] = NoProc]
    /\ UNCHANGED <<now, disputes, dispute_data, analysis, oracle, exceptProcs>>

ReadStatus(p) ==
    /\ At(p) = "read"
    /\ result' = [Result("status", procs[p].e, "ok", <<>>)
                    EXCEPT !.request = [present |-> procs[p].during]]
    /\ Release(p)
    /\ procs' = [procs EXCEPT ![p] = NoProc]
    /\ UNCHANGED <<now, escrows, disputes, dispute_data, analysis, oracle,
                   exceptProcs>>

\* Two on-chain escrows await their deposits; the oracle is configured.
InitConcurrent ==
    /\ now = 0
    /\ escrows = [e \in 1..2 |->
                    create(CreateEscrowRequest(
                               {}, generate_escrow_id(0, 0), "crypto", 1), 0).escrow]
    /\ disputes = <<>>
    /\ result = NoResult
    /\ dispute_data = NoDisputeData
    /\ analysis = NoAnalysis
    /\ chat = NoChat
    /\ wire = NoWire
    /\ router = NoRouter
    /\ oracle = [NoOracle EXCEPT !.api_key = "sk_key"]
    /\ procs = NoProcs
    /\ locks = [e \in 1..2 |-> None]
    /\ calc = NoCalc
    /\ deployer = NoDeployer
    /\ network = NoNetwork

NextConcurrent ==
    \E p \in Procs :
        \/ Submit(p)
        \/ VerifyStart(p)
        \/ VerifyReturn(p)
        \/ Acquire(p)
        \/ Validate(p)
        \/ ApplyDecision(p)
        \/ ReadStatus(p)

SpecConcurrent == InitConcurrent /\ [][NextConcurrent]_vars

---------------------------------------------------------------------------
(* Heartbeats arrive among the commands on the registry. *)

\* A heartbeat handler that stamps every escrow with the time of the beat.
handle_heartbeat_Stamps(registry, sender, msg) ==
    [registry EXCEPT
       !.escrows = [e \in DOMAIN @ |-> [@[e] EXCEPT !.updated_at = msg.data.uptime]]]

\* handle_heartbeat: the sender is logged, nothing else.
handle_heartbeat(registry, sender, msg) == registry

HandleHeartbeat ==
    /\ \E sender \in Roles, n \in 1..MaxMsgId :
          LET msg == create_heartbeat_message(sender, "active", now, n)
              after == handle_heartbeat(Registry, sender, msg)
          IN  /\ escrows' = after.escrows
              /\ disputes' = after.disputes
              /\ result' = Result("heartbeat", 0, None, <<>>)
    /\ UNCHANGED <<now, dispute_data, analysis>>
    /\ UNCHANGED agentVars

NextHeartbeat ==
    \/ Tick
    \/ Create
    \/ Deposit
    \/ RaiseDispute
    \/ SubmitEvidence
    \/ ResolveDispute
    \/ HandleHeartbeat

SpecHeartbeat == Init /\ [][NextHeartbeat]_vars

---------------------------------------------------------------------------
(* Every command on one escrow, the deposit decided by the oracle's        *)
(* verdict: what a command that fails leaves behind.                        *)

\* deposit(id, asset, proof): the oracle is asked about the proof, the call
\* returns, and the registry decides.
DepositWithOracle ==
    /\ \E e \in DOMAIN escrows, proof \in Proofs, backend \in SomeOutcomes :
          LET transaction_data == [transaction_hash |-> "0xb"]
              verdict == verify_transaction_with_ai(
                             oracle.api_key, transaction_data, backend).value
          IN  /\ oracle' = [oracle EXCEPT !.transaction_data = transaction_data,
                                          !.backend = backend,
                                          !.value = verdict,
                                          !.attempts = 1]
              /\ Apply("deposit", e,
                       depositVerified(escrows[e], proof, verdict, now))
    /\ UNCHANGED <<now, disputes, dispute_data, analysis, exceptOracle>>

\* The registry after one valid creation at time 0; the oracle is configured.
InitCommands ==
    /\ now = 0
    /\ \E tt \in RequestedTradeTypes :
          escrows = <<create(CreateEscrowRequest(
                                 {}, generate_escrow_id(0, 0), tt, 1), 0).escrow>>
    /\ disputes = <<>>
    /\ result = NoResult
    /\ dispute_data = NoDisputeData
    /\ analysis = NoAnalysis
    /\ chat = NoChat
    /\ wire = NoWire
    /\ router = NoRouter
    /\ oracle = [NoOracle EXCEPT !.api_key = "sk_key"]
    /\ procs = NoProcs
    /\ locks = <<>>
    /\ calc = NoCalc
    /\ deployer = NoDeployer
    /\ network = NoNetwork

NextCommands ==
    \/ Tick
    \/ DepositWithOracle
    \/ ConfirmFulfillment
    \/ Cancel
    \/ RaiseDispute
    \/ ResolveDispute
    \/ SubmitEvidence

SpecCommands == InitCommands /\ [][NextCommands]_vars

---------------------------------------------------------------------------
(* Python floats: binary floating point with a mantissa of MantissaBits   *)
(* bits (53 in CPython), rounded to nearest, ties to even, with the two    *)
(* special values inf and nan.  A finite float is m * 2^e.                 *)

MantissaBits == 8

\* Finite floats are below 2^MaxExponent (1024 in CPython).
MaxExponent == 16

RECURSIVE Pow(_, _)
Pow(b, k) == IF k = 0 THEN 1 ELSE b * Pow(b, k - 1)

Abs(n) == IF n < 0 THEN 0 - n ELSE n
Min(a, b) == IF a <= b THEN a ELSE b

Fin(m, e) == [kind |-> "finite", m |-> m, e |-> e]
Inf(sign) == [kind |-> "inf", m |-> sign, e |-> 0]
NaN == [kind |-> "nan", m |-> 0, e |-> 0]
Zero == Fin(0, 0)

Sign(x) == IF x.m < 0 THEN 0 - 1 ELSE 1

\* The element of a singleton.  {e : v \in {d}} is e with v standing for the
\* value of d, which is computed once however often e reads it: the local
\* variables of the functions below are bound this way.
The(S) == CHOOSE v \in S : TRUE

\* n / d rounded to an integer, ties to even (n >= 0, d > 0).
RoundHalfEven(n, d) ==
    LET q == n \div d
        r == n % d
    IN  IF 2 * r < d THEN q
        ELSE IF 2 * r > d THEN q + 1
        ELSE IF q % 2 = 0 THEN q ELSE q + 1

\* The float nearest to sign * (n / d) * 2^e (n >= 0, d > 0).
RECURSIVE Round(_, _, _, _)
Round(sign, n, d, e) ==
    IF n = 0 THEN Zero
    ELSE IF n \div d >= Pow(2, MantissaBits) THEN Round(sign, n, 2 * d, e + 1)
    ELSE IF n \div d < Pow(2, MantissaBits - 1) THEN Round(sign, 2 * n, d, e - 1)
    ELSE LET q == RoundHalfEven(n, d)
             m == IF q = Pow(2, MantissaBits) THEN Pow(2, MantissaBits - 1) ELSE q
             x == IF q = Pow(2, MantissaBits) THEN e + 1 ELSE e
         IN  IF x + MantissaBits > MaxExponent THEN Inf(sign)
             ELSE Fin(sign * m, x)

FMul(a, b) ==
    The({IF x.kind = "nan" \/ y.kind = "nan" THEN NaN
         ELSE IF x.kind = "inf" \/ y.kind = "inf"
         THEN IF x = Zero \/ y = Zero THEN NaN ELSE Inf(Sign(x) * Sign(y))
         ELSE Round(Sign(x) * Sign(y), Abs(x.m) * Abs(y.m), 1, x.e + y.e) :
         x \in {a}, y \in {b}})

\* x / y for a finite y that is not zero.
FDiv(a, b) ==
    The({IF x.kind = "nan" THEN NaN
         ELSE IF x.kind = "inf" THEN Inf(Sign(x) * Sign(y))
         ELSE Round(Sign(x) * Sign(y), Abs(x.m), Abs(y.m), x.e - y.e) :
         x \in {a}, y \in {b}})

FSub(a, b) ==
    The({IF x.kind = "nan" \/ y.kind = "nan" THEN NaN
         ELSE IF x.kind = "inf"
         THEN IF y.kind = "inf" /\ Sign(x) = Sign(y) THEN NaN ELSE x
         ELSE IF y.kind = "inf" THEN Inf(0 - Sign(y))
         ELSE The({Round(IF n < 0 THEN 0 - 1 ELSE 1, Abs(n), 1, Min(x.e, y.e)) :
                   n \in {x.m * Pow(2, x.e - Min(x.e, y.e))
                          - y.m * Pow(2, y.e - Min(x.e, y.e))}}) :
         x \in {a}, y \in {b}})

\* The float written as the decimal literal n / 10^k.
Literal(n, k) == Round(IF n < 0 THEN 0 - 1 ELSE 1, Abs(n), Pow(10, k), 0)

---------------------------------------------------------------------------
(* Python values handed to float(), and the text of a formatted float. *)

\* The fractional digits of format_amount's default (18 in the code, with a
\* mantissa of 53 bits; here with one of MantissaBits bits).
Decimals == 4

DecDigits == <<"0", "1", "2", "3", "4", "5", "6", "7", "8", "9">>

DigitValue(c) == (CHOOSE i \in 1..10 : DecDigits[i] = c) - 1

IsDigit(c) == \E i \in 1..10 : DecDigits[i] = c

Str(text) == [type |-> "str", text |-> text, value |-> Zero, n |-> 0]
\* str(x) of a float x: the text that float() reads back as x.
StrOfFloat(x) == [type |-> "str", text |-> <<"r", "e", "p", "r">>, value |-> x, n |-> 0]
PyFloat(x) == [type |-> "float", text |-> <<>>, value |-> x, n |-> 0]
PyInt(n) == [type |-> "int", text |-> <<>>, value |-> Zero, n |-> n]
PyNone == [type |-> "NoneType", text |-> <<>>, value |-> Zero, n |-> 0]
PyList == [type |-> "list", text |-> <<>>, value |-> Zero, n |-> 0]

\* A call that returned a value, and one that raised.
Done(value) == [exception |-> None, value |-> value]
Throws(exception, nothing) == [exception |-> exception, value |-> nothing]

\* Digits with single underscores between them.
DigitRun(s) ==
    /\ Len(s) > 0
    /\ IsDigit(s[1])
    /\ \A i \in 1..Len(s) :
          \/ IsDigit(s[i])
          \/ s[i] = "_" /\ i < Len(s) /\ IsDigit(s[i + 1])

RECURSIVE DigitsValue(_)
DigitsValue(digits) ==
    The({IF s = <<>> THEN 0
         ELSE IF s[Len(s)] = "_" THEN DigitsValue(SubSeq(s, 1, Len(s) - 1))
         ELSE 10 * DigitsValue(SubSeq(s, 1, Len(s) - 1))
              + DigitValue(s[Len(s)]) :
         s \in {digits}})

CountDigits(s) == Len(SelectSeq(s, IsDigit))

\* A text read as a number, for a text without an exponent part: stripped,
\* an optional sign, then inf, nan, or digits with an optional point.  The
\* number is sign * n / 10^k.
Numeral(text) ==
    LET Signed(t) == t # <<>> /\ Head(t) \in {"+", "-"}
        Point(u) ==
            LET points == {i \in 1..Len(u) : u[i] = "."}
            IN  IF points = {} THEN Len(u) + 1
                ELSE CHOOSE i \in points : \A j \in points : i <= j
        Kind(u, whole, fraction) ==
            IF u \in {<<"i", "n", "f">>,
                      <<"i", "n", "f", "i", "n", "i", "t", "y">>}
            THEN "inf"
            ELSE IF u = <<"n", "a", "n">> THEN "nan"
            ELSE IF /\ whole = <<>> \/ DigitRun(whole)
                    /\ fraction = <<>> \/ DigitRun(fraction)
                    /\ whole # <<>> \/ fraction # <<>>
            THEN "number"
            ELSE "invalid"
    IN  The({The({The({The({
            [kind |-> kind,
             sign |-> IF Signed(t) /\ Head(t) = "-" THEN 0 - 1 ELSE 1,
             n |-> IF kind = "number" THEN DigitsValue(whole \o fraction)
                   ELSE 0,
             k |-> IF kind = "number" THEN CountDigits(fraction) ELSE 0] :
            kind \in {Kind(u, whole, fraction)}}) :
            whole \in {SubSeq(u, 1, Point(u) - 1)},
            fraction \in {Drop(u, Point(u))}}) :
            u \in {IF Signed(t) THEN Tail(t) ELSE t}}) :
            t \in {RStrip(LStrip(text))}})

\* float(text)
ParseFloat(text) ==
    The({CASE numeral.kind = "inf" -> Done(Inf(numeral.sign))
           [] numeral.kind = "nan" -> Done(NaN)
           [] numeral.kind = "number" ->
                  Done(Round(numeral.sign, numeral.n, Pow(10, numeral.k), 0))
           [] OTHER -> Throws("ValueError", NaN) :
         numeral \in {Numeral(text)}})

\* float(v)
float(v) ==
    CASE v.type = "str" ->
             IF v = StrOfFloat(v.value) THEN Done(v.value) ELSE ParseFloat(v.text)
      [] v.type = "float" -> Done(v.value)
      [] v.type = "int" ->
             IF Abs(v.n) >= Pow(2, MaxExponent)
             THEN Throws("OverflowError", NaN)
             ELSE Done(Literal(v.n, 0))
      [] OTHER -> Throws("TypeError", NaN)

RECURSIVE IntDigits(_)
IntDigits(n) ==
    IF n < 10 THEN <<DecDigits[n + 1]>>
    ELSE Append(IntDigits(n \div 10), DecDigits[(n % 10) + 1])

\* The last k digits of n, with leading zeros.
RECURSIVE FractionDigits(_, _)
FractionDigits(n, k) ==
    IF k = 0 THEN <<>>
    ELSE Append(FractionDigits(n \div 10, k - 1), DecDigits[(n % 10) + 1])

\* f"{x:.{decimals}f}"
FormatF(x, decimals) ==
    IF x.kind = "nan" THEN <<"n", "a", "n">>
    ELSE IF x.kind = "inf"
    THEN (IF Sign(x) < 0 THEN <<"-">> ELSE <<>>) \o <<"i", "n", "f">>
    ELSE LET units == IF x.e >= 0
                      THEN Abs(x.m) * Pow(2, x.e) * Pow(10, decimals)
                      ELSE RoundHalfEven(Abs(x.m) * Pow(10, decimals),
                                         Pow(2, 0 - x.e))
         IN  (IF Sign(x) < 0 THEN <<"-">> ELSE <<>>)
             \o IntDigits(units \div Pow(10, decimals))
             \o (IF decimals = 0 THEN <<>>
                 ELSE <<".">> \o FractionDigits(units % Pow(10, decimals), decimals))

ZeroText == <<"0", ".", "0">>

---------------------------------------------------------------------------
(* format_amount and calculate_fees (shared/utils.py). *)

\* format_amount: ValueError and TypeError are caught (a negative precision
\* is a ValueError of the format specification).
format_amount(amount, decimals) ==
    The({IF amount_float.exception \in {"ValueError", "TypeError"}
         THEN Done(ZeroText)
         ELSE IF amount_float.exception # None
         THEN Throws(amount_float.exception, ZeroText)
         ELSE IF decimals < 0 THEN Done(ZeroText)
         ELSE Done(FormatF(amount_float.value, decimals)) :
         amount_float \in {float(amount)}})

\* percentage / 100
TrueDiv100(percentage) ==
    CASE percentage.type = "float" ->
             Done(FDiv(percentage.value, Literal(100, 0)))
      [] percentage.type = "int" ->
             IF Abs(percentage.n) >= Pow(2, MaxExponent)
             THEN Throws("OverflowError", NaN)
             ELSE Done(Round(IF percentage.n < 0 THEN 0 - 1 ELSE 1,
                             Abs(percentage.n), 100, 0))
      [] OTHER -> Throws("TypeError", NaN)

Fees(total, platform_fee, arbiter_fee, net_amount) ==
    [total |-> total, platform_fee |-> platform_fee,
     arbiter_fee |-> arbiter_fee, net_amount |-> net_amount]

ZeroFees == Fees(ZeroText, ZeroText, ZeroText, ZeroText)

\* The three amounts with the arbiter's fee left out of the net amount.
fee_amounts_NetOfPlatformOnly(amount_float, platform, arbiter) ==
    The({[platform_fee |-> platform_fee, arbiter_fee |-> arbiter_fee,
          net_amount |-> FSub(amount_float, platform_fee)] :
         platform_fee \in {FMul(amount_float, platform)},
         arbiter_fee \in {FMul(amount_float, arbiter)}})

\* The three amounts calculate_fees computes from the amount and the two
\* percentages already divided by 100.
fee_amounts(amount_float, platform, arbiter) ==
    The({[platform_fee |-> platform_fee, arbiter_fee |-> arbiter_fee,
          net_amount |-> FSub(FSub(amount_float, platform_fee), arbiter_fee)] :
         platform_fee \in {FMul(amount_float, platform)},
         arbiter_fee \in {FMul(amount_float, arbiter)}})

\* calculate_fees: the first exception of the try block decides; ValueError
\* and TypeError give the all-zero result, any other propagates.
calculate_fees(amount, platform_fee_percentage, arbiter_fee_percentage) ==
    The({The({IF first \in {"ValueError", "TypeError"} THEN Done(ZeroFees)
              ELSE IF first # None THEN Throws(first, ZeroFees)
              ELSE Done(Fees(
                  format_amount(StrOfFloat(amount_float.value), Decimals).value,
                  format_amount(StrOfFloat(amounts.platform_fee), Decimals).value,
                  format_amount(StrOfFloat(amounts.arbiter_fee), Decimals).value,
                  format_amount(StrOfFloat(amounts.net_amount), Decimals).value)) :
              first \in {IF amount_float.exception # None
                         THEN amount_float.exception
                         ELSE IF platform.exception # None
                         THEN platform.exception
                         ELSE arbiter.exception},
              amounts \in {fee_amounts(amount_float.value, platform.value,
                                       arbiter.value)}}) :
         amount_float \in {float(amount)},
         platform \in {TrueDiv100(platform_fee_percentage)},
         arbiter \in {TrueDiv100(arbiter_fee_percentage)}})

---------------------------------------------------------------------------
(* The functions of shared/utils.py are called with amounts, percentages   *)
(* and precisions of every kind.                                            *)

\* An int too large for a float.
HugeInt == PyInt(Pow(2, 30))

AmountTexts ==
    {<<"1", "0", "0">>, <<"7">>, <<"1">>, <<"3">>, <<"0">>, <<"0", ".", "1">>,
     <<"3", "3", ".", "3", "3">>, <<" ", "5", " ">>, <<"1", "_", "0">>,
     <<"-", "5">>, <<"i", "n", "f">>, <<"n", "a", "n">>,
     <<"a", "b", "c">>, <<>>, <<"0", "x", "1", "0">>, <<"1", ".", "2", ".", "3">>}

Amounts ==
    {Str(text) : text \in AmountTexts}
    \cup {PyNone, PyList, PyInt(5), HugeInt, PyFloat(Literal(25, 1))}

Percentages ==
    {PyFloat(Literal(5, 1)), PyFloat(Literal(10, 1)), PyFloat(Literal(7, 1)),
     PyFloat(Literal(25, 1)), PyFloat(Literal(600, 1)),
     PyInt(1), HugeInt, Str(<<"a">>), PyNone}

Precisions == {0 - 1, 0, 2, Decimals}

exceptCalc == <<chat, wire, router, oracle, procs, locks, deployer, network>>

CalculateFees ==
    /\ calc = NoCalc
    /\ \E amount \in Amounts, platform \in Percentages, arbiter \in Percentages :
          calc' = [fn |-> "calculate_fees", amount |-> amount,
                   platform_fee_percentage |-> platform,
                   arbiter_fee_percentage |-> arbiter,
                   locals |-> fee_amounts(float(amount).value,
                                          TrueDiv100(platform).value,
                                          TrueDiv100(arbiter).value),
                   out |-> calculate_fees(amount, platform, arbiter)]
    /\ UNCHANGED <<coreVars, exceptCalc>>

FormatAmount ==
    /\ calc = NoCalc
    /\ \E amount \in Amounts, decimals \in Precisions :
          calc' = [fn |-> "format_amount", amount |-> amount,
                   decimals |-> decimals,
                   out |-> format_amount(amount, decimals)]
    /\ UNCHANGED <<coreVars, exceptCalc>>

NextFees == CalculateFees \/ FormatAmount

SpecFees == Init /\ [][NextFees]_vars

---------------------------------------------------------------------------
(* The validators of shared/utils.py are called with addresses, hashes and *)
(* escrow data of every kind.                                               *)

\* 0x and n characters, of which the one at position i is c.
HexWith(n, i, c) == <<"0", "x">> \o Rep("a", i - 1) \o <<c>> \o Rep("a", n - i)

\* Texts of every length around 2 + n, and texts of that length with a
\* character that is no hexadecimal digit at the start, inside or at the end.
HexInputs(n) ==
    {<<>>, <<"0", "x">>, NoneStr, Rep("a", n + 2),
     <<"0", "x">> \o Rep("a", n - 1), <<"0", "x">> \o Rep("a", n),
     <<"0", "x">> \o Rep("a", n + 1), <<"0", "x">> \o Rep("F", n),
     <<"0", "X">> \o Rep("a", n), <<"0", "x">> \o Rep("g", n),
     <<"0", "x", "0", "x">> \o Rep("a", n - 2),
     <<"0", "x", "0", "X">> \o Rep("a", n - 2)}
    \cup {HexWith(n, i, c) : i \in {1, 2, n}, c \in {"+", "-", " ", "_", "g", "9"}}

\* EscrowTerms(...) with the two fee percentages given (in tenths).
TermsWithFees(terms, arbiter, platform) ==
    IF terms.present
    THEN [terms EXCEPT !.arbiter_fee_percentage = arbiter,
                       !.platform_fee_percentage = platform]
    ELSE terms

\* The fee percentages given: the defaults, and pairs that add up to 100 and
\* to more.
FeePairs == {<<default_arbiter_fee_percentage, default_platform_fee_percentage>>,
             <<500, 500>>, <<600, 500>>}

BuyerAddresses ==
    {GoodAddress, EmptyString, NonHexAddress, ShortAddress,
     HexWith(40, 1, "+"), HexWith(40, 20, "_")}

ValidateAddress ==
    /\ calc = NoCalc
    /\ \E address \in HexInputs(40) \cup HexInputs(64) :
          calc' = [fn |-> "validate_address", input |-> address,
                   out |-> validate_address(address)]
    /\ UNCHANGED <<coreVars, exceptCalc>>

ValidateTransactionHash ==
    /\ calc = NoCalc
    /\ \E tx_hash \in HexInputs(64) \cup HexInputs(40) :
          calc' = [fn |-> "validate_transaction_hash", input |-> tx_hash,
                   out |-> validate_transaction_hash(tx_hash)]
    /\ UNCHANGED <<coreVars, exceptCalc>>

\* validate_escrow_data is called at time t on escrow data built at time 0.
ValidateEscrowData ==
    /\ calc = NoCalc
    /\ \E t \in now..MaxClock, D \in SUBSET (Defects \ {"buyer"}),
          buyer_address \in BuyerAddresses, deadline \in 0..(Second(MaxClock) + 1),
          fees \in FeePairs :
          LET req == CreateEscrowRequest(
                         D, generate_escrow_id(0, 0), "crypto", deadline)
              escrow_data ==
                  [EscrowData(req, 0) EXCEPT
                     !.buyer_address = buyer_address,
                     !.terms = TermsWithFees(@, fees[1], fees[2])]
          IN  /\ now' = t
              /\ calc' = [fn |-> "validate_escrow_data",
                          escrow_data |-> escrow_data, t |-> t,
                          out |-> validate_escrow_data(escrow_data, t)]
    /\ UNCHANGED <<escrows, disputes, result, dispute_data, analysis, exceptCalc>>

NextValidate == ValidateAddress \/ ValidateTransactionHash \/ ValidateEscrowData

SpecValidate == Init /\ [][NextValidate]_vars

---------------------------------------------------------------------------
(* deposit called with proofs of every shape, in every status of an        *)
(* escrow of an on-chain or an off-chain trade type.                        *)

\* Transaction proofs: well formed, too short, and two that are 0x and 64
\* characters of which one is not a hexadecimal digit.
DepositProofs ==
    Proofs \cup {HexWith(TxHashLength - 2, 1, "+"),
                 HexWith(TxHashLength - 2, 30, "_")}

\* deposit(id, asset, proof); the call and its proof are kept in calc.
DepositProof ==
    /\ \E e \in DOMAIN escrows, proof \in DepositProofs :
          /\ Apply("deposit", e, deposit(escrows[e], proof, now))
          /\ calc' = [fn |-> "deposit", e |-> e, proof |-> proof]
    /\ UNCHANGED <<now, disputes, dispute_data, analysis, exceptCalc>>

NextDeposit ==
    \/ Tick
    \/ DepositProof
    \/ ConfirmFulfillment
    \/ Cancel
    \/ RaiseDispute
    \/ ResolveDispute
    \/ SubmitEvidence

SpecDeposit == InitCommands /\ [][NextDeposit]_vars

---------------------------------------------------------------------------
(* The AgentDeployer (deployment/deploy_agents.py): deploy_all_agents and  *)
(* then verify_deployment, as main() calls them.                            *)

\* Where the try block of deploy_agent raises, if it does: not at all,
\* before the result is stored in deployed_agents, or after (the print that
\* follows the store).
Raises == {"no", "before the store", "after the store"}

\* d[key] = value on a dict kept as a sequence of entries in insertion order.
DictSet(d, key, value) ==
    IF \E i \in DOMAIN d : d[i].agent_name = key
    THEN [i \in DOMAIN d |-> IF d[i].agent_name = key THEN value ELSE d[i]]
    ELSE Append(d, value)

DeploymentResult(agent_name, status) ==
    [agent_name |-> agent_name, status |-> status]

\* deploy_agent: the deployer's records afterwards and the result returned.
deploy_agent(deployed_agents, agent_name, raised) ==
    [deployed_agents |->
         IF raised = "before the store" THEN deployed_agents
         ELSE DictSet(deployed_agents, agent_name,
                      DeploymentResult(agent_name, "deployed")),
     value |-> DeploymentResult(agent_name,
                                IF raised = "no" THEN "deployed" ELSE "failed")]

\* verify_deployment: every record of deployed_agents has status deployed.
verify_deployment(deployed_agents) ==
    \A i \in DOMAIN deployed_agents : deployed_agents[i].status = "deployed"

\* One turn of the loop of deploy_all_agents; after the last the results
\* are saved and returned.
DeployAgent ==
    /\ deployer.pc \in {"constructed", "deploying"}
    /\ \E raised \in Raises :
          LET agent_name == DeployerAgents[deployer.next]
              out == deploy_agent(deployer.deployed_agents, agent_name, raised)
          IN  deployer' =
                 [deployer EXCEPT
                     !.deployed_agents = out.deployed_agents,
                     !.deployment_results =
                          DictSet(deployer.deployment_results, agent_name, out.value),
                     !.next = deployer.next + 1,
                     !.pc = IF deployer.next = Len(DeployerAgents)
                            THEN "deployed all" ELSE "deploying"]
    /\ UNCHANGED <<coreVars, chat, wire, router, oracle, procs, locks, calc, network>>

VerifyDeployment ==
    /\ deployer.pc = "deployed all"
    /\ deployer' = [deployer EXCEPT
                       !.verified = verify_deployment(deployer.deployed_agents),
                       !.pc = "verified"]
    /\ UNCHANGED <<coreVars, chat, wire, router, oracle, procs, locks, calc, network>>

NextDeploy == DeployAgent \/ VerifyDeployment

SpecDeploy == Init /\ [][NextDeploy]_vars

---------------------------------------------------------------------------
(* Two agents in an exchange: every message one sends is delivered to the  *)
(* other, whose handler for it runs (on_chat for a ChatMessage, on_ack for *)
(* a ChatAcknowledgement).                                                  *)

\* The messages in flight at a time are at most this many.
MaxInFlight == 6

\* The keywords of the routers that the text of each reply contains,
\* lower-cased: what the reply is when it arrives as a request.
ReplyWords(role, body) ==
    CASE role = "buyer" /\ body = "ready" ->
             {"confirm", "deposit", "dispute", "fulfill", "fulfillment", "help", "new escrow", "refund"}
      [] role = "buyer" /\ body = "thank_you" ->
             {}
      [] role = "buyer" /\ body = "not_sure" ->
             {"help"}
      [] role = "buyer" /\ body = "handle_create_escrow" ->
             {"new escrow"}
      [] role = "buyer" /\ body = "handle_deposit_assets" ->
             {"confirm", "deposit"}
      [] role = "buyer" /\ body = "handle_confirm_fulfillment" ->
             {"confirm", "fulfill", "fulfillment"}
      [] role = "buyer" /\ body = "handle_raise_dispute" ->
             {"dispute", "evidence"}
      [] role = "buyer" /\ body = "handle_refund_request" ->
             {"refund"}
      [] role = "buyer" /\ body = "handle_help" ->
             {"confirm", "deposit", "dispute", "fulfill", "fulfillment", "help", "new escrow", "refund"}
      [] role = "seller" /\ body = "ready" ->
             {"check", "confirm", "deliver", "delivery", "dispute", "evidence", "fulfill", "help", "status"}
      [] role = "seller" /\ body = "thank_you" ->
             {"fulfill", "fulfillment"}
      [] role = "seller" /\ body = "not_sure" ->
             {"help"}
      [] role = "seller" /\ body = "handle_fulfill_obligation" ->
             {"fulfill", "fulfillment", "proof"}
      [] role = "seller" /\ body = "handle_confirm_delivery" ->
             {"confirm", "deliver", "delivery", "proof"}
      [] role = "seller" /\ body = "handle_raise_dispute" ->
             {"dispute", "evidence"}
      [] role = "seller" /\ body = "handle_check_status" ->
             {"check", "status"}
      [] role = "seller" /\ body = "handle_provide_evidence" ->
             {"evidence"}
      [] role = "seller" /\ body = "handle_help" ->
             {"check", "confirm", "deliver", "delivery", "dispute", "evidence", "fulfill", "help", "status"}
      [] role = "arbiter" /\ body = "ready" ->
             {"decision", "dispute", "evidence", "help", "review"}
      [] role = "arbiter" /\ body = "thank_you" ->
             {"dispute"}
      [] role = "arbiter" /\ body = "not_sure" ->
             {"help"}
      [] role = "arbiter" /\ body = "handle_analyze_dispute" ->
             {"analyze", "dispute", "evidence"}
      [] role = "arbiter" /\ body = "handle_resolve_dispute" ->
             {"decision", "dispute", "evidence", "refund", "resolve"}
      [] role = "arbiter" /\ body = "handle_request_evidence" ->
             {"dispute", "evidence"}
      [] role = "arbiter" /\ body = "handle_help" ->
             {"analyze", "dispute", "evidence", "help", "resolve"}
      [] role = "oracle" /\ body = "ready" ->
             {"check", "confirm", "help", "verify"}
      [] role = "oracle" /\ body = "thank_you" ->
             {}
      [] role = "oracle" /\ body = "not_sure" ->
             {"help"}
      [] role = "oracle" /\ body = "handle_verify_transaction" ->
             {"verify"}
      [] role = "oracle" /\ body = "handle_check_status" ->
             {"check", "status"}
      [] role = "oracle" /\ body = "handle_help" ->
             {"check", "help", "status", "verify"}
      [] OTHER -> {}

\* on_ack of the four agents: the acknowledgement is logged.
on_ack(role, sender, msg) == <<>>

\* The messages that the steps of a handler send, in order.
Sends(program) ==
    LET sends == SelectSeq(program, LAMBDA step : step.do = "send")
    IN  [k \in DOMAIN sends |-> sends[k].message]

\* A message under way: a ChatAcknowledgement, or a ChatMessage with a
\* msg_id of its own and one content item.
InFlight(from, role, message, msg_id) ==
    [from |-> from, to |-> message.to,
     kind |-> IF message.kind = "acknowledgement" THEN "acknowledgement"
              ELSE "chat",
     msg_id |-> IF message.kind = "acknowledgement" THEN 0 ELSE msg_id,
     acknowledged_msg_id |-> message.acknowledged_msg_id,
     content |-> CASE message.kind = "text" ->
                          <<[kind |-> "text",
                             text |-> ReplyWords(role, message.body)]>>
                   [] message.kind = "metadata" ->
                          <<[kind |-> "metadata", text |-> {}]>>
                   [] OTHER -> <<>>]

\* The ids that the messages in flight carry or acknowledge.
IdsOf(inflight) ==
    ({inflight[k].msg_id : k \in DOMAIN inflight}
     \cup {inflight[k].acknowledged_msg_id : k \in DOMAIN inflight}) \ {0}

\* uuid4(): the n-th id that is not in use.
Fresh(used, n) ==
    LET free == (1..(2 * MaxInFlight)) \ used
    IN  CHOOSE id \in free : Cardinality({j \in free : j < id}) = n - 1

Remove(s, i) == SubSeq(s, 1, i - 1) \o SubSeq(s, i + 1, Len(s))

\* The message sent first of those under way to an agent.
First(inflight, i) == \A j \in 1..(i - 1) : inflight[j].to # inflight[i].to

\* The messages to an agent arrive in the order they were sent.  One
\* arrives and its handler runs to its end.
Deliver ==
    /\ \E i \in DOMAIN network.inflight :
          /\ First(network.inflight, i)
          /\ \E m \in {network.inflight[i]}, rest \in {Remove(network.inflight, i)} :
             \E sent \in {Sends(IF m.kind = "acknowledgement"
                                THEN on_ack(network.role[m.to], m.from, m)
                                ELSE on_chat(network.role[m.to], m.from, m))} :
             LET used == IdsOf(rest) \cup ({m.msg_id} \ {0})
                 Chats(k) == {j \in 1..k : sent[j].kind # "acknowledgement"}
                 out == [k \in DOMAIN sent |->
                           InFlight(m.to, network.role[m.to], sent[k],
                                    Fresh(used, Cardinality(Chats(k))))]
             IN  /\ Len(rest) + Len(sent) <= MaxInFlight
                 /\ network' = [network EXCEPT
                                   !.inflight = rest \o out,
                                   !.last = [kind |-> m.kind,
                                             msg_id |-> m.msg_id,
                                             sent |-> out]]
    /\ UNCHANGED <<coreVars, chat, wire, router, oracle, procs, locks, calc,
                   deployer>>

\* Agent 1 has sent agent 2 one ChatMessage; nothing else is under way.
InitExchange ==
    /\ now = 0
    /\ escrows = <<>>
    /\ disputes = <<>>
    /\ result = NoResult
    /\ dispute_data = NoDisputeData
    /\ analysis = NoAnalysis
    /\ chat = NoChat
    /\ wire = NoWire
    /\ router = NoRouter
    /\ oracle = NoOracle
    /\ procs = NoProcs
    /\ locks = <<>>
    /\ calc = NoCalc
    /\ deployer = NoDeployer
    /\ \E r1 \in Roles, r2 \in Roles, content \in Contents :
          network = [role |-> <<r1, r2>>,
                     inflight |-> <<[from |-> 1, to |-> 2, kind |-> "chat",
                                     msg_id |-> 1, acknowledged_msg_id |-> 0,
                                     content |-> content]>>,
                     last |-> NoDelivery]

NextExchange == Deliver

\* Every message in flight is delivered in the end.
SpecExchange == InitExchange /\ [][NextExchange]_vars /\ WF_vars(Deliver)

---------------------------------------------------------------------------
(* on_chat of each agent is handed one text request: no keyword, one, or   *)
(* two, in lower case or not.                                               *)

\* The words of the requests: every keyword of the four routers, two that
\* are not lower case, and one that is no keyword.
RequestWords ==
    {"create escrow", "new escrow", "deposit", "confirm", "fulfillment",
     "dispute", "raise dispute", "refund", "help", "fulfill", "deliver",
     "delivery", "status", "check", "evidence", "proof", "analyze", "review",
     "resolve", "decision", "verify", "HELP", "Status", "hello"}

TextRequests == {request \in SUBSET RequestWords : Cardinality(request) <= 2}

\* A ChatMessage with one text item arrives and on_chat runs to its end.
OnTextRequest ==
    /\ calc = NoCalc
    /\ \E role \in Roles, sender \in Senders, request \in TextRequests :
          LET msg == [msg_id |-> 1,
                      content |-> <<[kind |-> "text", text |-> request]>>]
          IN  calc' = [fn |-> "on_chat", role |-> role, sender |-> sender,
                       msg |-> msg, request |-> request,
                       sent |-> Sends(on_chat(role, sender, msg))]
    /\ UNCHANGED <<coreVars, exceptCalc>>

NextRequests == OnTextRequest

SpecRequests == Init /\ [][NextRequests]_vars

---------------------------------------------------------------------------
(* calculate_time_remaining and format_time_remaining (shared/utils.py),   *)
(* called with deadlines before, at and up to days after the clock's        *)
(* reading; validate_escrow_data reads the same clock.                      *)

TimeRemaining(total_seconds, days, hours, minutes, seconds, expired) ==
    [total_seconds |-> total_seconds, days |-> days, hours |-> hours,
     minutes |-> minutes, seconds |-> seconds, expired |-> expired]

\* calculate_time_remaining that reports a deadline as expired only once it
\* has passed.
calculate_time_remaining_ExpiresLate(deadline, t) ==
    LET remaining == deadline - Second(t)
    IN  IF remaining < 0 THEN TimeRemaining(0, 0, 0, 0, 0, TRUE)
        ELSE TimeRemaining(remaining,
                           remaining \div (24 * 60 * 60),
                           (remaining % (24 * 60 * 60)) \div (60 * 60),
                           (remaining % (60 * 60)) \div 60,
                           remaining % 60,
                           FALSE)

\* calculate_time_remaining(deadline) when time.time() reads t.
calculate_time_remaining(deadline, t) ==
    LET current_time == Second(t)
        remaining == deadline - current_time
    IN  IF remaining <= 0 THEN TimeRemaining(0, 0, 0, 0, 0, TRUE)
        ELSE TimeRemaining(remaining,
                           remaining \div (24 * 60 * 60),
                           (remaining % (24 * 60 * 60)) \div (60 * 60),
                           (remaining % (60 * 60)) \div 60,
                           remaining % 60,
                           FALSE)

\* format_time_remaining(deadline): "Expired", or the parts that are not
\* zero, each a number with its unit ("0s" when there is none).
format_time_remaining(deadline, t) ==
    LET time_data == calculate_time_remaining(deadline, t)
        Part(n, unit) == IF n > 0 THEN <<[n |-> n, unit |-> unit]>> ELSE <<>>
        parts == Part(time_data.days, "d") \o Part(time_data.hours, "h")
                 \o Part(time_data.minutes, "m") \o Part(time_data.seconds, "s")
    IN  IF time_data.expired THEN <<"Expired">>
        ELSE IF parts # <<>> THEN parts
        ELSE <<[n |-> 0, unit |-> "s"]>>

\* Spans of time: every mix of no, one and the most days, hours, minutes and
\* seconds.
Spans ==
    {d * (24 * 60 * 60) + h * (60 * 60) + m * 60 + s :
        d \in {0, 1, 30}, h \in {0, 1, 23}, m \in {0, 1, 59}, s \in {0, 1, 59}}

\* The clock is read; the time remaining to a deadline is calculated and
\* formatted, and escrow data with that deadline is validated.
CalculateTimeRemaining ==
    /\ calc = NoCalc
    /\ \E t \in now..MaxClock, span \in Spans, back \in 0..1 :
          LET deadline == Second(t) + span - back
              req == CreateEscrowRequest(
                         {}, generate_escrow_id(0, 0), "crypto", deadline)
          IN  /\ deadline >= 0
              /\ now' = t
              /\ calc' = [fn |-> "calculate_time_remaining",
                          deadline |-> deadline, t |-> t,
                          out |-> calculate_time_remaining(deadline, t),
                          text |-> format_time_remaining(deadline, t),
                          errors |-> validate_escrow_data(EscrowData(req, 0), t)]
    /\ UNCHANGED <<escrows, disputes, result, dispute_data, analysis, exceptCalc>>

NextTime == CalculateTimeRemaining

SpecTime == Init /\ [][NextTime]_vars

---------------------------------------------------------------------------
(* The claims. *)

\* A step in which a command or handler ran (the clock alone did not move).
CommandStep == result' # result \/ escrows' # escrows \/ disputes' # disputes

Terminal == {"COMPLETED", "CANCELED"}

IsPrefix(s, t) == Len(s) <= Len(t) /\ SubSeq(t, 1, Len(s)) = s

\* The statuses in which the specification allows each command.
AllowedIn(command) ==
    CASE command = "deposit" -> {"AWAITING_DEPOSIT"}
      [] command = "confirmFulfillment" -> {"AWAITING_FULFILLMENT"}
      [] command = "raiseDispute" -> {"AWAITING_DEPOSIT", "AWAITING_FULFILLMENT"}
      [] command = "resolveDispute" -> {"DISPUTE_RAISED"}
      [] OTHER -> {"AWAITING_DEPOSIT"}

\* C1: a deposit, confirmFulfillment, raiseDispute or resolveDispute (or
\* cancel) that is not legal in the escrow's current status returns
\* InvalidStateError and leaves every escrow and every dispute record as it
\* was; it is never accepted as a silent no-op.
C1_IllegalCommandRejected ==
    [][(CommandStep /\ result'.op \in Commands
          /\ escrows[result'.target].status \notin AllowedIn(result'.op))
       => (/\ result'.kind = "InvalidStateError"
           /\ escrows' = escrows
           /\ disputes' = disputes)]_vars

\* Scenario C has happened: confirmFulfillment was rejected on an escrow
\* that is still in AWAITING_DEPOSIT.
C1_Witness ==
    /\ result.op = "confirmFulfillment"
    /\ result.kind = "InvalidStateError"
    /\ escrows[result.target].status = "AWAITING_DEPOSIT"

Edges ==
    {<<"AWAITING_DEPOSIT", "AWAITING_FULFILLMENT">>,
     <<"AWAITING_FULFILLMENT", "COMPLETED">>,
     <<"AWAITING_DEPOSIT", "DISPUTE_RAISED">>,
     <<"AWAITING_FULFILLMENT", "DISPUTE_RAISED">>,
     <<"DISPUTE_RAISED", "COMPLETED">>,
     <<"DISPUTE_RAISED", "CANCELED">>,
     <<"AWAITING_DEPOSIT", "CANCELED">>}

\* C2: every change of an escrow's status, whatever the step (a command or a
\* status update message with any old/new pair), is one of the seven edges
\* of the transition graph.
C2_OnlyGraphEdges ==
    [][\A e \in DOMAIN escrows :
          /\ e \in DOMAIN escrows'
          /\ escrows'[e].status # escrows[e].status
                => <<escrows[e].status, escrows'[e].status>> \in Edges]_vars

\* A status update message was handled for an escrow that had moved along
\* two edges of the graph, and the escrow is still where the edges left it.
C2_Witness ==
    /\ result.op = "status_update"
    /\ escrows[result.target].status = "DISPUTE_RAISED"
    /\ escrows[result.target].deposit_tx_hash # NoneStr

\* C3: COMPLETED and CANCELED are absorbing: from then on no step changes
\* any field of the escrow, and every command on it is rejected.
C3_TerminalAbsorbing ==
    [][\A e \in DOMAIN escrows :
          escrows[e].status \in Terminal
             => /\ e \in DOMAIN escrows'
                /\ escrows'[e] = escrows[e]
                /\ (CommandStep /\ result'.op \in Commands /\ result'.target = e)
                      => result'.kind = "InvalidStateError"]_vars

\* A command was rejected on an escrow that is COMPLETED or CANCELED.
C3_Witness ==
    /\ result.op \in Commands
    /\ result.kind = "InvalidStateError"
    /\ escrows[result.target].status \in Terminal

\* What the specification asks of a creation request at time t.
ValidRequest(req, t) ==
    /\ validate_address(req.buyer_address)
    /\ validate_address(req.seller_address)
    /\ validate_address(req.arbiter_address)
    /\ IdLen(req.escrow_id) >= 10
    /\ req.asset_a.present /\ req.asset_a.amount # EmptyString
    /\ req.asset_b.present /\ req.asset_b.amount # EmptyString
    /\ req.terms.present /\ req.terms.description # EmptyString
    /\ req.terms.deadline > Second(t)

\* C4: a creation request that passes validation adds one escrow, in
\* AWAITING_DEPOSIT, carrying the request's fields; one that fails
\* validation returns ValidationError with a non-empty list of reasons and
\* adds nothing to the registry.
C4_CreateValidated ==
    [][(CommandStep /\ result'.op = "create")
       => IF ValidRequest(result'.request, now')
          THEN /\ result'.kind = "ok"
               /\ Len(escrows') = Len(escrows) + 1
               /\ SubSeq(escrows', 1, Len(escrows)) = escrows
               /\ escrows'[Len(escrows')].status = "AWAITING_DEPOSIT"
               /\ escrows'[Len(escrows')].escrow_id = result'.request.escrow_id
               /\ escrows'[Len(escrows')].terms = result'.request.terms
          ELSE /\ result'.kind = "ValidationError"
               /\ result'.errors # <<>>
               /\ escrows' = escrows]_vars

\* A creation was refused with its reasons after another had been accepted.
C4_Witness ==
    /\ result.op = "create"
    /\ result.kind = "ValidationError"
    /\ result.errors # <<>>
    /\ Len(escrows) >= 1

\* C5: the ids of the escrows of the registry are pairwise different (and
\* no step changes the id of an escrow).
C5_IdsUnique ==
    \A i, j \in DOMAIN escrows :
       i # j => escrows[i].escrow_id # escrows[j].escrow_id

\* C6: raiseDispute succeeds exactly from AWAITING_DEPOSIT and
\* AWAITING_FULFILLMENT; it then adds one open DisputeRecord for the escrow
\* and moves the escrow to DISPUTE_RAISED; otherwise it fails with
\* InvalidStateError; no escrow ever has two open disputes.
C6_RaiseDispute ==
    [][/\ (CommandStep /\ result'.op = "raiseDispute")
          => LET e == result'.target
             IN  IF escrows[e].status \in {"AWAITING_DEPOSIT", "AWAITING_FULFILLMENT"}
                 THEN /\ result'.kind = "ok"
                      /\ escrows'[e].status = "DISPUTE_RAISED"
                      /\ Len(disputes') = Len(disputes) + 1
                      /\ SubSeq(disputes', 1, Len(disputes)) = disputes
                      /\ disputes'[Len(disputes')].escrow = e
                      /\ disputes'[Len(disputes')].status = "open"
                 ELSE /\ result'.kind = "InvalidStateError"
                      /\ escrows' = escrows
                      /\ disputes' = disputes
       /\ \A e \in DOMAIN escrows' : Cardinality(OpenIn(disputes', e)) <= 1]_vars

\* A second raiseDispute was refused on an escrow whose dispute is open.
C6_Witness ==
    /\ result.op = "raiseDispute"
    /\ result.kind = "InvalidStateError"
    /\ escrows[result.target].status = "DISPUTE_RAISED"
    /\ Cardinality(OpenDisputes(result.target)) = 1

\* C7: resolveDispute on an escrow in DISPUTE_RAISED moves it to COMPLETED
\* on release and to CANCELED on refund, and the escrow's DisputeRecord
\* becomes resolved and records the decision; with no open dispute it fails
\* with InvalidStateError and changes nothing.
C7_ResolveDispute ==
    [][(CommandStep /\ result'.op = "resolveDispute")
       => LET e == result'.target
          IN  IF escrows[e].status = "DISPUTE_RAISED" /\ OpenDisputes(e) # {}
              THEN /\ result'.kind = "ok"
                   /\ escrows'[e].status \in Terminal
                   /\ OpenIn(disputes', e) = {}
                   /\ \A d \in OpenDisputes(e) :
                         /\ disputes'[d].status = "resolved"
                         /\ disputes'[d].decision \in Decisions
                         /\ disputes'[d].evidence = disputes[d].evidence
                         /\ escrows'[e].status =
                               IF disputes'[d].decision = "release"
                               THEN "COMPLETED" ELSE "CANCELED"
                         /\ escrows'[e].settlement = disputes'[d].decision
                   /\ \A d \in DOMAIN disputes \ OpenDisputes(e) :
                         disputes'[d] = disputes[d]
              ELSE /\ result'.kind = "InvalidStateError"
                   /\ escrows' = escrows
                   /\ disputes' = disputes]_vars

\* A dispute was resolved with decision refund and the escrow is CANCELED.
C7_Witness ==
    /\ result.op = "resolveDispute"
    /\ result.kind = "ok"
    /\ escrows[result.target].status = "CANCELED"
    /\ \E d \in DOMAIN disputes :
          /\ disputes[d].escrow = result.target
          /\ disputes[d].status = "resolved"
          /\ disputes[d].decision = "refund"

\* C8: a resolved DisputeRecord never changes again, and the evidence of an
\* open one only grows at its end.
C8_DisputeRecordStable ==
    [][\A d \in DOMAIN disputes :
          /\ d \in DOMAIN disputes'
          /\ disputes[d].status = "resolved" => disputes'[d] = disputes[d]
          /\ IsPrefix(disputes[d].evidence, disputes'[d].evidence)]_vars

\* Evidence was added to a dispute while it was open, and a later
\* submission against the resolved record was refused.
C8_Witness ==
    /\ result.op = "submitEvidence"
    /\ result.kind = "InvalidStateError"
    /\ disputes[result.target].status = "resolved"
    /\ Len(disputes[result.target].evidence) = MaxEvidence

\* C9: the recommendation depends on the number n of evidence items only:
\* n = 0 gives REQUIRES_MORE_EVIDENCE at 0.5, 1 <= n <= 2 gives REFUND_FUNDS
\* at 0.6, n >= 3 gives RELEASE_FUNDS at 0.8.
C9_RecommendationByCount ==
    analysis # NoAnalysis
       => LET n == Len(analysis.evidence)
              verdict == <<analysis.recommendation, analysis.confidence>>
          IN  /\ n = 0 => verdict = <<"REQUIRES_MORE_EVIDENCE", 5>>
              /\ (1 <= n /\ n <= 2) => verdict = <<"REFUND_FUNDS", 6>>
              /\ n >= 3 => verdict = <<"RELEASE_FUNDS", 8>>

\* Scenario B has happened: two evidence items, REFUND_FUNDS at 0.6.
C9_Witness ==
    /\ Len(analysis.evidence) = 2
    /\ analysis.evidence = dispute_data.evidence
    /\ analysis.recommendation = "REFUND_FUNDS"
    /\ analysis.confidence = 6

\* C10: the output carries the fixed list of requested evidence kinds
\* exactly when the recommendation is REQUIRES_MORE_EVIDENCE; with
\* REFUND_FUNDS or RELEASE_FUNDS it requests no further evidence.
C10_RequestsEvidenceOnlyWhenUndecided ==
    analysis # NoAnalysis
       => IF analysis.recommendation = "REQUIRES_MORE_EVIDENCE"
          THEN analysis.required_evidence = RequiredEvidence
          ELSE analysis.required_evidence = <<>>

\* C11: computing a recommendation changes no escrow and no DisputeRecord,
\* and a disputed escrow leaves DISPUTE_RAISED (its record leaves "open")
\* only in a step in which resolveDispute was accepted for that escrow.
C11_AnalysisIsAdvisory ==
    [][/\ (analysis' # analysis \/ dispute_data' # dispute_data)
            => escrows' = escrows /\ disputes' = disputes
       /\ \A e \in DOMAIN escrows :
            escrows[e].status = "DISPUTE_RAISED"
            /\ escrows'[e].status # "DISPUTE_RAISED"
            => /\ result'.op = "resolveDispute"
               /\ result'.kind = "ok"
               /\ result'.target = e
       /\ \A d \in DOMAIN disputes :
            disputes[d].status = "open" /\ disputes'[d].status # "open"
            => /\ result'.op = "resolveDispute"
               /\ result'.kind = "ok"
               /\ result'.target = disputes[d].escrow]_vars

\* A recommendation to refund was computed from a recorded dispute, and the
\* escrow is still disputed and the record still open.
C11_Witness ==
    \E d \in DOMAIN disputes :
        /\ analysis.recommendation = "REFUND_FUNDS"
        /\ analysis.evidence = disputes[d].evidence
        /\ disputes[d].status = "open"
        /\ escrows[disputes[d].escrow].status = "DISPUTE_RAISED"

\* C12: once a handler has looked at any content item of the inbound message
\* or has sent anything, the first thing it sent is an acknowledgement to
\* the sender whose acknowledged_msg_id is the inbound message's msg_id.
C12_AckFirst ==
    chat.role # None /\ (chat.item > 0 \/ chat.sent # <<>>)
    => /\ chat.sent # <<>>
       /\ chat.sent[1] = ChatAcknowledgement(chat.sender, chat.msg_id)
       /\ \A k \in 2..Len(chat.sent) : chat.sent[k].kind # "acknowledgement"

\* A handler has gone through a message of several items and replied to it.
C12_Witness ==
    /\ chat.role \in Roles
    /\ chat.item = MaxContent
    /\ Len(chat.sent) >= 3
    /\ chat.sent[1].acknowledged_msg_id = chat.msg_id
    /\ chat.sent[2].kind # "acknowledgement"

\* C14: validate_message is true of a message exactly when it has the four
\* fields type, timestamp, msg_id and data, and every message built by a
\* builder of the protocol module or of the shared utilities passes it.
C14_BuiltEnvelopesValidate ==
    wire.by # None
    => /\ validate_message(wire.built)
          <=> {"type", "timestamp", "msg_id", "data"} \subseteq DOMAIN wire.built
       /\ validate_message(wire.built)

\* C15: the type and the data that the parse functions read back from a
\* built envelope are the type and the dict its builder was given.
C15_ReadsBackWhatWasGiven ==
    wire.module = "protocol" /\ wire.payload # NoneDict
    => /\ parse_message_type(wire.built) = wire.type
       /\ parse_message_data(wire.built) = wire.payload

\* C15, amended: from an envelope built by the protocol module the parse
\* functions read back the builder's type and the envelope's data field;
\* that data is the given dict for create_escrow_message, and for every
\* other builder a dict that holds the given dict under the builder's key.
C15_ReadsBackTypeAndWrappedData ==
    wire.module = "protocol"
    => /\ validate_message(wire.built)
       /\ parse_message_type(wire.built) = wire.type
       /\ parse_message_data(wire.built) = wire.built.data
       /\ wire.payload # NoneDict /\ wire.key = None
          => parse_message_data(wire.built) = wire.payload
       /\ wire.payload # NoneDict /\ wire.key # None
          => /\ wire.key \in DOMAIN parse_message_data(wire.built)
             /\ parse_message_data(wire.built)[wire.key] = wire.payload

\* A response envelope was built around a non-empty dict.
C15_Witness ==
    /\ wire.by = "create_response_message"
    /\ wire.payload = [amount |-> "100"]
    /\ parse_message_data(wire.built).response_data = wire.payload
    /\ parse_message_type(wire.built) = "oracle_response"

\* An envelope whose type is none of the 16 catalog types nor
\* "acknowledgement", or that has no type.
Unrecognised(m) ==
    "type" \notin DOMAIN m
    \/ m.type \notin EscrowMessageTypes \cup {"acknowledgement"}

\* C13: dispatching an envelope of unrecognised type hands it to no
\* handler, sends one more envelope, of type error and well formed, leaves
\* the handling loop running and changes nothing in the registry.
C13_UnknownTypeAnswered ==
    [][router.stage = "acknowledged" /\ router'.stage = "dispatched"
       /\ Unrecognised(router.inbound)
       => /\ router'.handler = None
          /\ Len(router'.out) = Len(router.out) + 1
          /\ router'.out[Len(router'.out)].type = "error"
          /\ validate_message(router'.out[Len(router'.out)])
          /\ router'.running
          /\ escrows' = escrows /\ disputes' = disputes /\ result' = result]_vars

\* An envelope of type "bogus" aimed at an existing escrow was answered with
\* an error, and the loop went on to take an envelope after it.
C13_Witness ==
    /\ router.stage = "dispatched"
    /\ "type" \in DOMAIN router.inbound /\ router.inbound.type = "bogus"
    /\ Len(router.out) = 2 /\ router.out[2].type = "error"
    /\ Len(escrows) = 1 /\ escrows[1].status = "AWAITING_FULFILLMENT"

\* A verdict with verified = False, or with a confidence below the threshold.
Low(verification) ==
    \/ verification.verified = "False"
    \/ /\ verification.confidence.kind = "float"
       /\ verification.confidence.tenths < ConfidenceThreshold

\* C16: when the registry decides a deposit on a verdict that is not
\* verified or whose confidence is below the threshold, the escrow is left
\* as it was and the command's result is "inconclusive".
C16_LowVerdictInconclusive ==
    [][oracle.pc = "returned" /\ oracle'.pc = "idle" /\ Low(oracle.value)
       => /\ escrows' = escrows
          /\ result'.op = "deposit"
          /\ result'.kind = "inconclusive"]_vars

\* The backend answered verified = True with confidence 0.2, the registry
\* decided the deposit on it, and the escrow still awaits its deposit.
C16_Witness ==
    /\ oracle.pc = "idle"
    /\ oracle.backend.outcome = "content"
    /\ oracle.value = Dict("True", Float(2), None)
    /\ result.op = "deposit" /\ result.kind = "inconclusive"
    /\ escrows[1].status = "AWAITING_DEPOSIT"

\* The ways a verification fails: no API key, no usable transaction data,
\* a failed or timed-out request, a reply that cannot be parsed.
VerificationFailed ==
    \/ oracle.api_key \in {None, ""}
    \/ oracle.transaction_data = NoneDict
    \/ oracle.backend.outcome \in
         {"ConnectionError", "Timeout", "HTTPError", "body is not JSON",
          "no choices", "content is not a str", "content is not JSON"}

\* C17: verify_transaction_with_ai never raises, and whenever the
\* verification failed it returns verified = False with confidence 0.
C17_FailureIsUnverified ==
    /\ oracle.pc # "raised" /\ ~oracle.raised
    /\ oracle.pc = "returned" /\ VerificationFailed
       => /\ oracle.value.type = "dict"
          /\ oracle.value.verified = "False"
          /\ oracle.value.confidence = Float(0)

\* The request was made and the reply had no choices, and the caller got
\* its unverified result.
C17_Witness ==
    /\ oracle.pc = "returned"
    /\ oracle.backend.outcome = "no choices"
    /\ oracle.value.verified = "False"

\* C18: every value verify_transaction_with_ai returns is a dict with a
\* boolean "verified" and a "confidence" that is a number from 0 to 1.
C18_ResultWellFormed ==
    oracle.pc = "returned"
    => /\ oracle.value.type = "dict"
       /\ oracle.value.verified \in {"True", "False"}
       /\ oracle.value.confidence.kind = "float"
       /\ oracle.value.confidence.tenths \in 0..10

\* Command p is between the start of its validation and the end of the
\* application of its decision.
InSection(p) == At(p) \in {"validate", "apply", "read"}

\* C19: no two commands on the same escrow are inside their critical
\* sections at once, and what a command applies is what the operation
\* decides on the escrow as it is when applied (so the commands take effect
\* one after another, in the order of their applications).
C19_SerializedPerEscrow ==
    [][/\ \A p, q \in Procs :
            p # q /\ InSection(p) /\ InSection(q) => procs[p].e # procs[q].e
       /\ \A p \in Procs :
            At(p) = "apply" /\ procs'[p].op = None
            => /\ procs[p].out = Outcome(procs[p].op, escrows[procs[p].e],
                                         procs[p].verdict, now)
               /\ escrows'[procs[p].e] = procs[p].out.escrow]_vars

\* Two commands are inside their critical sections at once, on different
\* escrows, one of them about to apply an accepted cancel.
C19_Witness ==
    /\ InSection("p1") /\ InSection("p2")
    /\ procs["p1"].e # procs["p2"].e
    /\ At("p1") = "apply" /\ procs["p1"].op = "cancel"
    /\ procs["p1"].out.kind = "ok"
    /\ procs["p2"].op = "deposit"

C21_RetriesUntilThirdFailure ==
    /\ oracle.attempts <= MAX_RETRIES
    /\ oracle.pc = "returned" /\ oracle.backend.outcome \in RequestFailures
       => oracle.attempts = MAX_RETRIES

\* C22: the step in which a heartbeat is received, whatever came before it,
\* changes no escrow and no DisputeRecord.
C22_HeartbeatChangesNothing ==
    [][result'.op = "heartbeat" => escrows' = escrows /\ disputes' = disputes]_vars

\* A heartbeat was received after time had passed, while a dispute is open
\* on an escrow.
C22_Witness ==
    /\ result.op = "heartbeat"
    /\ now > 0
    /\ \E d \in DOMAIN disputes :
          /\ disputes[d].status = "open"
          /\ escrows[disputes[d].escrow].status = "DISPUTE_RAISED"

\* The escrow and its dispute records agree: no transition is half applied.
Whole(e) ==
    /\ (escrows[e].status = "DISPUTE_RAISED") = (OpenDisputes(e) # {})
    /\ (escrows[e].status = "AWAITING_FULFILLMENT")
       => escrows[e].deposit_tx_hash # NoneStr
    /\ (escrows[e].status = "AWAITING_DEPOSIT")
       => escrows[e].deposit_tx_hash = NoneStr /\ escrows[e].settlement = None
    /\ (escrows[e].status = "COMPLETED") = (escrows[e].settlement = "release")
    /\ \A d \in DOMAIN disputes :
          disputes[d].escrow = e /\ disputes[d].status = "resolved"
          => /\ escrows[e].status \in Terminal
             /\ escrows[e].settlement = disputes[d].decision

\* C23: a command whose result is a failure (ValidationError,
\* InvalidStateError, an inconclusive or timed-out verification) changes no
\* escrow and no DisputeRecord, and in every state each escrow and its
\* dispute records show whole transitions only.
C23_AllOrNothing ==
    /\ [](\A e \in DOMAIN escrows : Whole(e))
    /\ [][result'.kind \notin {"ok", None}
          => escrows' = escrows /\ disputes' = disputes]_vars

\* A deposit whose verification timed out was refused, after time had
\* passed, and the escrow still awaits its deposit.
C23_Witness ==
    /\ result.op = "deposit"
    /\ result.kind = "inconclusive"
    /\ oracle.backend.outcome = "Timeout"
    /\ escrows[1].status = "AWAITING_DEPOSIT"
    /\ now > 0

\* The value float() gives for a Python value that it reads as a number
\* (nan when it reads none).
Number(v) == IF float(v).exception = None THEN float(v).value ELSE NaN

\* A percentage that is a number: a float or an int.
IsPercentage(v) == v.type \in {"float", "int"} /\ TrueDiv100(v).exception = None

\* A formatted amount in units of 10^-Decimals.
Units(text) ==
    Numeral(text).sign * Numeral(text).n * Pow(10, Decimals - Numeral(text).k)

\* C24: for an amount A >= 0 and two percentages, the platform fee, the
\* arbiter fee and the net amount that calculate_fees returns add up to the
\* total it returns, to within one unit of the last formatted digit.
C24_FeesAddUp ==
    /\ calc.fn = "calculate_fees"
    /\ Number(calc.amount).kind # "nan" /\ Number(calc.amount).m >= 0
    /\ IsPercentage(calc.platform_fee_percentage)
    /\ IsPercentage(calc.arbiter_fee_percentage)
    => /\ calc.out.exception = None
       /\ \A part \in {"total", "platform_fee", "arbiter_fee", "net_amount"} :
             Numeral(calc.out.value[part]).kind = "number"
       /\ Abs(Units(calc.out.value.platform_fee)
              + Units(calc.out.value.arbiter_fee)
              + Units(calc.out.value.net_amount)
              - Units(calc.out.value.total)) <= 1

\* The float x is within slack units of the last place of the float y of
\* the number n / d * 2^e (d > 0).
Near(x, n, d, e, slack, y) ==
    LET g == Min(Min(x.e, e), y.e)
    IN  /\ x.kind = "finite"
        /\ Abs(x.m * Pow(2, x.e - g) * d - n * Pow(2, e - g))
              <= slack * Pow(2, y.e - g) * d

\* The text is the float x written with Decimals fractional digits: it
\* differs from x by half a unit of its last digit at most.
Written(text, x) ==
    /\ Numeral(text).kind = "number"
    /\ Numeral(text).k = Decimals
    /\ x.kind = "finite"
    /\ IF x.e >= 0
       THEN Units(text) = x.m * Pow(2, x.e) * Pow(10, Decimals)
       ELSE 2 * Abs(Units(text) * Pow(2, 0 - x.e) - x.m * Pow(10, Decimals))
               <= Pow(2, 0 - x.e)

\* C25: for a finite amount A and percentages p and a, calculate_fees
\* returns the total A, platform_fee = A * p / 100, arbiter_fee = A * a / 100
\* and net = A - platform_fee - arbiter_fee, each computed in floating point
\* (within two units of the last place of the fee, and of the amount for the
\* net) and each written with Decimals fractional digits; for amount "100"
\* and percentages 0.5 and 1.0 the net amount is written 98.5000...
C25_FeeFormulas ==
    /\ calc.fn = "calculate_fees"
    /\ Number(calc.amount).kind = "finite"
    /\ IsPercentage(calc.platform_fee_percentage)
    /\ IsPercentage(calc.arbiter_fee_percentage)
    => LET A == Number(calc.amount)
           p == Number(calc.platform_fee_percentage)
           a == Number(calc.arbiter_fee_percentage)
           g == Min(Min(p.e, a.e), 0)
           hundred == 100 * Pow(2, 0 - g)
           both == p.m * Pow(2, p.e - g) + a.m * Pow(2, a.e - g)
           out == calc.out.value
       IN  /\ calc.out.exception = None
           /\ Near(calc.locals.platform_fee, A.m * p.m, 100, A.e + p.e,
                   2, calc.locals.platform_fee)
           /\ Near(calc.locals.arbiter_fee, A.m * a.m, 100, A.e + a.e,
                   2, calc.locals.arbiter_fee)
           /\ Near(calc.locals.net_amount, A.m * (hundred - both), hundred, A.e,
                   2, A)
           /\ Written(out.total, A)
           /\ Written(out.platform_fee, calc.locals.platform_fee)
           /\ Written(out.arbiter_fee, calc.locals.arbiter_fee)
           /\ Written(out.net_amount, calc.locals.net_amount)
           /\ /\ calc.amount = Str(<<"1", "0", "0">>)
              /\ calc.platform_fee_percentage = PyFloat(Literal(5, 1))
              /\ calc.arbiter_fee_percentage = PyFloat(Literal(10, 1))
              => out.net_amount = <<"9", "8", ".", "5">> \o Rep("0", Decimals - 1)

\* Scenario A: the fees of amount "100" at 0.5 and 1.0 percent were computed.
C25_Witness ==
    /\ calc.fn = "calculate_fees"
    /\ calc.amount = Str(<<"1", "0", "0">>)
    /\ calc.platform_fee_percentage = PyFloat(Literal(5, 1))
    /\ calc.arbiter_fee_percentage = PyFloat(Literal(10, 1))
    /\ calc.out.value.platform_fee = <<"0", ".", "5">> \o Rep("0", Decimals - 1)
    /\ calc.out.value.net_amount = <<"9", "8", ".", "5">> \o Rep("0", Decimals - 1)

\* A Python value that float() does not take for a number.
NotANumber(v) == float(v).exception \in {"ValueError", "TypeError"}

\* C30: format_amount and calculate_fees raise for no input, and for an
\* amount that is not a number format_amount returns "0.0" and
\* calculate_fees returns "0.0" four times.
C30_NeverRaises ==
    /\ calc.fn \in {"format_amount", "calculate_fees"}
       => calc.out.exception = None
    /\ calc.fn = "format_amount" /\ NotANumber(calc.amount)
       => calc.out.value = ZeroText
    /\ calc.fn = "calculate_fees" /\ NotANumber(calc.amount)
       => calc.out.value = ZeroFees

\* The text is 0x followed by exactly n hexadecimal digits.
HexString(s, n) ==
    /\ Len(s) = n + 2
    /\ s[1] = "0" /\ s[2] = "x"
    /\ \A i \in 3..Len(s) : s[i] \in HexDigits

\* C26: validate_address accepts exactly the texts that are 0x followed by
\* 40 hexadecimal digits, and validate_transaction_hash exactly those that
\* are 0x followed by 64 hexadecimal digits.
C26_ValidatorsExact ==
    /\ calc.fn = "validate_address" => calc.out = HexString(calc.input, 40)
    /\ calc.fn = "validate_transaction_hash"
       => calc.out = HexString(calc.input, 64)

\* The rules of validation that escrow data violates at time t, each with
\* the error that reports it, in the order of the checks.
RuleErrors(escrow_data, t) ==
    <<[violated |-> ~HexString(escrow_data.buyer_address, 40),
       error |-> "Invalid buyer address"],
      [violated |-> ~HexString(escrow_data.seller_address, 40),
       error |-> "Invalid seller address"],
      [violated |-> ~HexString(escrow_data.arbiter_address, 40),
       error |-> "Invalid arbiter address"],
      [violated |-> IdLen(escrow_data.escrow_id) < 10,
       error |-> "Invalid escrow ID"],
      [violated |-> ~escrow_data.asset_a.present
                    \/ escrow_data.asset_a.amount = EmptyString,
       error |-> "Asset A is required"],
      [violated |-> ~escrow_data.asset_b.present
                    \/ escrow_data.asset_b.amount = EmptyString,
       error |-> "Asset B is required"],
      [violated |-> ~escrow_data.terms.present
                    \/ escrow_data.terms.description = EmptyString,
       error |-> "Escrow description is required"],
      [violated |-> escrow_data.terms.present
                    /\ escrow_data.terms.deadline <= Second(t),
       error |-> "Deadline must be in the future"]>>

RECURSIVE Reported(_)
Reported(rules) ==
    IF rules = <<>> THEN <<>>
    ELSE (IF Head(rules).violated THEN <<Head(rules).error>> ELSE <<>>)
         \o Reported(Tail(rules))

\* C27: the list validate_escrow_data returns holds the error of every
\* violated rule, in the order of the rules, and nothing else; it is empty
\* exactly when no rule is violated.
C27_EveryViolatedRuleReported ==
    calc.fn = "validate_escrow_data"
    => calc.out = Reported(RuleErrors(calc.escrow_data, calc.t))

\* C28: escrow data that validate_escrow_data accepts has terms whose
\* deadline is strictly after the time of the validation; data without
\* terms is refused, and data whose deadline is not after that time is
\* refused with "Deadline must be in the future".
C28_DeadlineInTheFuture ==
    calc.fn = "validate_escrow_data"
    => LET terms == calc.escrow_data.terms
           late == "Deadline must be in the future"
       IN  /\ calc.out = <<>>
              => terms.present /\ terms.deadline * TicksPerSecond > calc.t
           /\ ~terms.present => calc.out # <<>>
           /\ terms.present
              => (terms.deadline <= Second(calc.t))
                 = (\E i \in DOMAIN calc.out : calc.out[i] = late)

\* Escrow data whose deadline is the second of the validation, after time
\* has passed, was refused for its deadline alone.
C28_Witness ==
    /\ calc.fn = "validate_escrow_data"
    /\ calc.t > 0
    /\ calc.escrow_data.terms.present
    /\ calc.escrow_data.terms.deadline = Second(calc.t)
    /\ calc.out = <<"Deadline must be in the future">>

\* C29: escrow data that validate_escrow_data accepts has fee percentages
\* that add up to less than 100 (1000 tenths).
C29_FeeSplitBelowHundred ==
    calc.fn = "validate_escrow_data" /\ calc.out = <<>>
    => calc.escrow_data.terms.platform_fee_percentage
       + calc.escrow_data.terms.arbiter_fee_percentage < 1000

\* A step in which deposit was called.
DepositStep ==
    /\ result'.op = "deposit"
    /\ calc' # calc \/ result' # result \/ escrows' # escrows

\* C31: a deposit moves an escrow to AWAITING_FULFILLMENT only from
\* AWAITING_DEPOSIT and, for an on-chain trade type, only with a proof that
\* is 0x followed by 64 hexadecimal digits; in AWAITING_DEPOSIT a malformed
\* proof of an on-chain trade returns ValidationError and changes nothing;
\* in any other status the deposit returns InvalidStateError and changes
\* nothing.
C31_DepositNeedsWellFormedProof ==
    [][DepositStep =>
       LET e == calc'.e
           esc == escrows[e]
           malformed == /\ OnChain(esc.trade_type)
                        /\ ~HexString(calc'.proof, TxHashLength - 2)
       IN  /\ esc.status # "AWAITING_DEPOSIT"
              => result'.kind = "InvalidStateError" /\ escrows' = escrows
           /\ esc.status = "AWAITING_DEPOSIT" /\ malformed
              => result'.kind = "ValidationError" /\ escrows' = escrows
           /\ esc.status = "AWAITING_DEPOSIT" /\ ~malformed
              => /\ result'.kind = "ok"
                 /\ escrows'[e].status = "AWAITING_FULFILLMENT"]_vars

\* C32: confirmFulfillment succeeds exactly on an escrow in
\* AWAITING_FULFILLMENT, which it moves to COMPLETED with a release marked,
\* and otherwise returns InvalidStateError and changes nothing; an escrow in
\* AWAITING_FULFILLMENT has had its deposit; and an escrow becomes COMPLETED
\* only by a fulfillment confirmation after its deposit or by a dispute
\* resolved with decision release.
C32_CompletedOnlyAfterFulfillmentOrRelease ==
    /\ [](\A e \in DOMAIN escrows :
             escrows[e].status = "AWAITING_FULFILLMENT"
             => escrows[e].deposit_tx_hash # NoneStr)
    /\ [][(CommandStep /\ result'.op = "confirmFulfillment")
          => LET e == result'.target
             IN  IF escrows[e].status = "AWAITING_FULFILLMENT"
                 THEN /\ result'.kind = "ok"
                      /\ escrows'[e].status = "COMPLETED"
                      /\ escrows'[e].settlement = "release"
                 ELSE /\ result'.kind = "InvalidStateError"
                      /\ escrows' = escrows]_vars
    /\ [][\A e \in DOMAIN escrows :
             escrows[e].status # "COMPLETED" /\ escrows'[e].status = "COMPLETED"
             => /\ result'.target = e
                /\ result'.kind = "ok"
                /\ \/ /\ result'.op = "confirmFulfillment"
                      /\ escrows[e].status = "AWAITING_FULFILLMENT"
                      /\ escrows[e].deposit_tx_hash # NoneStr
                   \/ /\ result'.op = "resolveDispute"
                      /\ escrows[e].status = "DISPUTE_RAISED"
                      /\ escrows'[e].settlement = "release"
                      /\ \E d \in DOMAIN disputes' :
                            /\ disputes'[d].escrow = e
                            /\ disputes'[d].decision = "release"]_vars

\* A fulfillment was confirmed: the escrow that had its deposit is COMPLETED
\* with a release marked and no dispute was ever raised on it.
C32_Witness ==
    /\ result.op = "confirmFulfillment"
    /\ result.kind = "ok"
    /\ escrows[result.target].status = "COMPLETED"
    /\ escrows[result.target].settlement = "release"
    /\ escrows[result.target].deposit_tx_hash # NoneStr
    /\ escrows[result.target].dispute_id = NoneId

\* C33: verify_deployment after deploy_all_agents returns true only if the
\* deployment of each of the four agents succeeded.
C33_VerifiedOnlyIfAllDeployed ==
    deployer.pc = "verified" /\ deployer.verified = TRUE
    => /\ Len(deployer.deployment_results) = Len(DeployerAgents)
       /\ \A i \in DOMAIN deployer.deployment_results :
             deployer.deployment_results[i].status = "deployed"

\* The handler of an acknowledgement sent nothing.
AckUnanswered ==
    network.last.kind = "acknowledgement" => network.last.sent = <<>>

\* The handler of a chat message sent one acknowledgement, of that message.
OneAckPerMessage ==
    network.last.kind = "chat"
    => LET acks == {k \in DOMAIN network.last.sent :
                       network.last.sent[k].kind = "acknowledgement"}
       IN  /\ Cardinality(acks) = 1
           /\ \A k \in acks :
                 network.last.sent[k].acknowledged_msg_id = network.last.msg_id

\* C34: an acknowledgement is never answered, each chat message delivered
\* causes exactly one acknowledgement, and an exchange between two agents
\* that starts from one chat message comes to rest: from some point on no
\* message, and so no acknowledgement, is under way.
C34_AcknowledgementsDieOut ==
    /\ [](AckUnanswered /\ OneAckPerMessage)
    /\ <>[](network.inflight = <<>>)

\* A handler with its keywords: the request is for the handler when it
\* contains every keyword of one of the alternatives.
Route(handler, alternatives) == [handler |-> handler, keywords |-> alternatives]

\* The handlers of each role in their fixed order.
Routes(role) ==
    CASE role = "buyer" ->
             <<Route("handle_create_escrow", {{"create escrow"}, {"new escrow"}}),
               Route("handle_deposit_assets", {{"deposit"}}),
               Route("handle_confirm_fulfillment", {{"confirm", "fulfillment"}}),
               Route("handle_raise_dispute", {{"dispute"}, {"raise dispute"}}),
               Route("handle_refund_request", {{"refund"}}),
               Route("handle_help", {{"help"}})>>
      [] role = "seller" ->
             <<Route("handle_fulfill_obligation", {{"fulfill"}, {"deliver"}}),
               Route("handle_confirm_delivery", {{"confirm", "delivery"}}),
               Route("handle_raise_dispute", {{"dispute"}, {"raise dispute"}}),
               Route("handle_check_status", {{"status"}, {"check"}}),
               Route("handle_provide_evidence", {{"evidence"}, {"proof"}}),
               Route("handle_help", {{"help"}})>>
      [] role = "arbiter" ->
             <<Route("handle_analyze_dispute", {{"analyze"}, {"review"}}),
               Route("handle_resolve_dispute", {{"resolve"}, {"decision"}}),
               Route("handle_request_evidence", {{"evidence"}}),
               Route("handle_help", {{"help"}})>>
      [] role = "oracle" ->
             <<Route("handle_verify_transaction", {{"verify"}, {"check"}}),
               Route("handle_check_status", {{"status"}}),
               Route("handle_help", {{"help"}})>>

Matches(request, route) ==
    \E alternative \in route.keywords :
       \A keyword \in alternative : Contains(request, keyword)

\* The reply due: that of the earliest handler the request is for, or the
\* fallback.
ReplyDue(role, request) ==
    LET routes == Routes(role)
        matching == {k \in DOMAIN routes : Matches(request, routes[k])}
    IN  IF matching = {} THEN "not_sure"
        ELSE routes[CHOOSE k \in matching : \A j \in matching : k <= j].handler

C36_TimeRemaining ==
    calc.fn = "calculate_time_remaining"
    => LET out == calc.out
       IN  /\ out.expired = (calc.deadline * TicksPerSecond <= calc.t)
           /\ out.expired
              => out = TimeRemaining(0, 0, 0, 0, 0, TRUE)
           /\ ~out.expired
              => /\ out.total_seconds = calc.deadline - Second(calc.t)
                 /\ out.total_seconds > 0
                 /\ out.days * 86400 + out.hours * 3600 + out.minutes * 60
                    + out.seconds = out.total_seconds
                 /\ out.days >= 0 /\ out.hours \in 0..23
                 /\ out.minutes \in 0..59 /\ out.seconds \in 0..59
           /\ calc.errors = <<>> => ~out.expired

\* A deadline of one day, one hour, one minute and one second after the
\* current second: accepted by the validation and reported with each
\* component 1.
C36_Witness ==
    /\ calc.fn = "calculate_time_remaining"
    /\ calc.errors = <<>>
    /\ calc.out = TimeRemaining(90061, 1, 1, 1, 1, FALSE)

=============================================================================
